---- MODULE Spec2Model ----
(***************************************************************************)
(* A model of the settings-grid reconciliation engine of the rule-         *)
(* monitoring framework: AbstractRuleRange (setRules, setRow, getRule,     *)
(* fillRuleValues, getValues), makeCampaignIndexedSettings and SettingMap. *)
(*                                                                         *)
(* Conventions.  A grid is a sequence of rows, a row a sequence of         *)
(* strings.  JavaScript arrays are 0-based: a sparse array (rules[c]) is a *)
(* function from the row positions that hold a row to the row, so that a   *)
(* hole is a position outside its DOMAIN.  The value undefined is the      *)
(* string "undefined", the string JavaScript turns it into when it is used *)
(* as a property key.  Rule names and header labels are never array-index  *)
(* strings; entity ids are ("1", "2", ...), as campaign ids are.           *)
(***************************************************************************)
EXTENDS Integers, Sequences, FiniteSets, TLC

VARIABLES
    rowIndex,       \* AbstractRuleRange.rowIndex: id -> row position
    rules,          \* AbstractRuleRange.rules: category -> sparse array of rows
    ruleKeys,       \* the property order of rules (Object.entries(this.rules))
    length,         \* AbstractRuleRange.length
    columnOrders,   \* AbstractRuleRange.columnOrders: rule name -> label -> index
    last,           \* the last call made on the range, its arguments, the range before it, its result
    history,        \* what has happened to the range: an id was pruned, the getValues and direct setRow calls made
    steps,          \* the number of calls made so far
    settingMap,     \* a SettingMap: its map (entries in insertion order) and its keys
    call,           \* the last call made on the SettingMap, its arguments, the map before it, its result
    ruleSheets,     \* the rule-settings sheets of the spreadsheet: granularity -> grid
    pass,           \* the last initializeRules pass: its arguments, the sheets before it, the sheets it wrote, the validations it applied
    sheet_version,  \* the script property 'sheet_version'
    applied,        \* the migrations that have completed, over all migrate() calls
    migration,      \* the last migrate() call: its target, the property before it, its events, its result
    comparison,     \* a sortMigrations call: its two version strings and the number returned
    monitor,        \* the launchMonitor or preLaunchQa run in progress: its position, the rule runs, the calls made
    client,         \* a Client: its ruleStore, the addRule calls made, the validate() call in progress and its events
    binding,        \* toExport after lazyLoadApp: what each entry point is bound to, the factory calls and method calls made
    session,        \* a launchMonitor pass over one rule-settings sheet: the sheet, the settings the rules hold, the user's edit
    report,         \* Client.campaignReport, the script cache, the buildReport invocations and the calls in progress
    startup         \* an initializeSheets call: what getIdentity returns, its position, the calls it has made

rangeVars == <<rowIndex, rules, ruleKeys, length, columnOrders, last, history>>
settingVars == <<settingMap, call>>
passVars == <<ruleSheets, pass, monitor>>
migrateVars == <<sheet_version, applied, migration, comparison>>
frontEndVars == <<passVars, migrateVars>>
appVars == <<client, binding, session, report, startup>>
notClient == <<binding, session, report, startup>>
notBinding == <<client, session, report, startup>>
notSession == <<client, binding, report, startup>>
notReport == <<client, binding, session, startup>>
notStartup == <<client, binding, session, report>>
vars == <<rowIndex, rules, ruleKeys, length, columnOrders, last, history, steps, settingMap, call,
          ruleSheets, pass, sheet_version, applied, migration, comparison, monitor, client, binding, session,
          report, startup>>

-----------------------------------------------------------------------------
(* Bounds of the model *)

MaxSteps == 2

-----------------------------------------------------------------------------
(* Program constants *)

HEADER_RULE_NAME_INDEX == 0
SHEET_TOP_PADDING == 2

Undefined == "undefined"

\* The ids the constructor seeds rowIndex with (constantHeaders).
ConstantHeaders == <<"ID", "default">>

\* client.ruleStore: the rules added to the client, by name.
RuleStore ==
    ("A" :> [granularity |-> "g1", helper |-> "hA"]) @@
    ("B" :> [granularity |-> "g1", helper |-> ""]) @@
    ("C" :> [granularity |-> "g2", helper |-> ""])

-----------------------------------------------------------------------------
(* JavaScript array and object helpers *)

Min(a, b) == IF a < b THEN a ELSE b

\* row[i] for a 0-based index i.
At(row, i) == IF i >= 0 /\ i < Len(row) THEN row[i + 1] ELSE Undefined

\* A slice that runs to the end of the row.
SliceToEnd(row, start, end) ==
    IF Len(row) <= start THEN << >> ELSE [k \in 1..(Len(row) - start) |-> row[start + k]]

\* row.slice(start, end), 0-based, end excluded.
Slice(row, start, end) ==
    LET e == Min(end, Len(row))
    IN  IF e <= start THEN << >> ELSE [k \in 1..(e - start) |-> row[start + k]]

\* Array.from({length: n}).fill(v)
Fill(n, v) == [k \in 1..n |-> v]

\* The least element of a non-empty set of numbers.
Least(S) == CHOOSE x \in S : \A y \in S : x <= y

\* Object.keys order of rowIndex: array-index keys in ascending numeric order,
\* then the other keys in insertion order ("ID" and "default" are inserted by
\* the constructor, before any other key).
KeyRank(id) ==
    CASE id = "1" -> 1
      [] id = "2" -> 2
      [] id = "3" -> 3
      [] id = "ID" -> 4
      [] id = "default" -> 5
      [] OTHER -> 6

\* Object.entries(rowIndex).sort((a, b) => a[1] - b[1]), a stable sort: the ids
\* by ascending position, ids at one position in property order.
RECURSIVE SortedEntries(_, _)
SortedEntries(ri, ids) ==
    IF ids = {} THEN << >>
    ELSE LET first == CHOOSE i \in ids : \A j \in ids :
                          \/ ri[i] < ri[j]
                          \/ ri[i] = ri[j] /\ KeyRank(i) <= KeyRank(j)
         IN  <<first>> \o SortedEntries(ri, ids \ {first})

-----------------------------------------------------------------------------
(* The range as a value: the fields of an AbstractRuleRange *)

Self == [rowIndex |-> rowIndex, rules |-> rules, ruleKeys |-> ruleKeys,
         length |-> length, columnOrders |-> columnOrders]

\* The field initialisers and the constructor's loop over constantHeaders.
EmptyRange ==
    [rowIndex |-> [i \in {ConstantHeaders[k] : k \in 1..Len(ConstantHeaders)} |->
                      (CHOOSE k \in 1..Len(ConstantHeaders) : ConstantHeaders[k] = i) - 1],
     rules |-> ("none" :> (0 :> << >>)),
     ruleKeys |-> <<"none">>,
     length |-> Len(ConstantHeaders),
     columnOrders |-> << >>]

\* A setRow that stores the row of an empty id as well.
EmptyIdNever(id) == FALSE

\* id === ''
EmptyId(id) == id = ""

\* A setRow that takes every id for a new one.
KnownNever(R, id) == FALSE

\* this.rowIndex[id] !== undefined
Known(R, id) == id \in DOMAIN R.rowIndex


\* setRow(category, id, column)
setRow(R, category, id, column) ==
    IF EmptyId(id) THEN R
    ELSE LET known == Known(R, id)
             len == IF known THEN R.length ELSE R.length + 1
             ri == IF known THEN R.rowIndex ELSE (id :> len) @@ R.rowIndex
             hasCategory == category \in DOMAIN R.rules
             old == IF hasCategory THEN R.rules[category] ELSE << >>
         IN  [R EXCEPT !.rowIndex = ri,
                       !.length = len,
                       !.rules = (category :> ((ri[id] :> column) @@ old)) @@ R.rules,
                       !.ruleKeys = IF hasCategory THEN R.ruleKeys
                                    ELSE Append(R.ruleKeys, category)]

\* The column blocks of setRules: [start, end) pairs, 0-based.
RECURSIVE Thresholds(_, _, _, _)
Thresholds(header, col, start, acc) ==
    IF col >= Len(header)
    THEN IF start # col THEN Append(acc, <<start, col>>) ELSE acc
    ELSE IF header[col + 1] # ""
         THEN Thresholds(header, col + 1, col, Append(acc, <<start, col>>))
         ELSE Thresholds(header, col + 1, start, acc)

\* The inner loop of setRules: one setRow per block for row r (1-based here).
RECURSIVE SetRulesRow(_, _, _, _, _)
SetRulesRow(R, range, r, thresholds, t) ==
    IF t > Len(thresholds) THEN R
    ELSE LET start == thresholds[t][1]
             end == thresholds[t][2]
             name == IF At(range[1], start) = "" THEN "none" ELSE At(range[1], start)
         IN  SetRulesRow(setRow(R, name, At(range[r], 0), Slice(range[r], start, end)),
                         range, r, thresholds, t + 1)

RECURSIVE SetRulesRows(_, _, _, _)
SetRulesRows(R, range, r, thresholds) ==
    IF r > Len(range) THEN R
    ELSE SetRulesRows(SetRulesRow(R, range, r, thresholds, 1), range, r + 1, thresholds)

\* setRules(range)
setRules(R, range) == SetRulesRows(R, range, 1, Thresholds(range[1], 0, 0, << >>))

\* new RuleRange(range, client)
Construct(range) == setRules(EmptyRange, range)

\* getRule(ruleName): the joined rows, one per tracked id whose position holds
\* a row in 'none' and in the rule, by ascending position.
RECURSIVE JoinRows(_, _, _)
JoinRows(R, ruleName, ids) ==
    IF ids = << >> THEN << >>
    ELSE LET index == R.rowIndex[Head(ids)]
             rest == JoinRows(R, ruleName, Tail(ids))
         IN  IF index \in DOMAIN R.rules["none"] /\ index \in DOMAIN R.rules[ruleName]
             THEN << <<At(R.rules["none"][index], 0)>> \o R.rules[ruleName][index] >> \o rest
             ELSE rest

getRule(R, ruleName) ==
    IF ruleName \notin DOMAIN R.rules \/ DOMAIN R.rules[ruleName] = {}
    THEN << >>
    ELSE JoinRows(R, ruleName, SortedEntries(R.rowIndex, DOMAIN R.rowIndex))

\* Whether getValues(ruleGranularity) fails: it reads the granularity of a block
\* whose rule is not in client.ruleStore. "" stands for no argument.
getValuesThrows(R, ruleGranularity) ==
    /\ ruleGranularity # ""
    /\ \E k \in 1..Len(R.ruleKeys) :
          R.ruleKeys[k] # "none" /\ R.ruleKeys[k] \notin DOMAIN RuleStore

\* rangeRaw.filter(row => row && row.length): the non-empty rows of a sparse
\* array, by ascending position.
RECURSIVE NonEmptyRows(_, _)
NonEmptyRows(rangeRaw, positions) ==
    IF positions = {} THEN << >>
    ELSE LET p == Least(positions)
             rest == NonEmptyRows(rangeRaw, positions \ {p})
         IN  IF Len(rangeRaw[p]) > 0 THEN <<rangeRaw[p]>> \o rest ELSE rest

\* ruleSettingColumnCount: the length of the first non-empty row, or 0.
ColumnCount(rangeRaw) ==
    LET range == NonEmptyRows(rangeRaw, DOMAIN rangeRaw)
    IN  IF Len(range) > 0 THEN Len(range[HEADER_RULE_NAME_INDEX + 1]) ELSE 0

\* Whether the reducer of getValues emits the block of a category.
Emitted(R, category, ruleGranularity) ==
    /\ ~ ( /\ ruleGranularity # ""
           /\ category # "none"
           /\ RuleStore[category].granularity # ruleGranularity )
    /\ ColumnCount(R.rules[category]) # 0

\* A getValues that leaves a missing row out instead of filling it with blanks.
RowOrNothing(rangeRaw, pos, count) ==
    IF pos \in DOMAIN rangeRaw THEN rangeRaw[pos] ELSE << >>

\* rangeRaw[currentOrdinalValue] ?? Array.from({length: ruleSettingColumnCount}).fill('')
RowOrBlanks(rangeRaw, pos, count) ==
    IF pos \in DOMAIN rangeRaw THEN rangeRaw[pos] ELSE Fill(count, "")

\* One step of the reducer of getValues: the block of a category appended to
\* combinedRuleRange = [h0, h1, rows], rows being the rows from SHEET_TOP_PADDING on.
ReduceBlock(R, combined, category, ruleGranularity, sortedEntries) ==
    IF ~ Emitted(R, category, ruleGranularity) THEN combined
    ELSE LET rangeRaw == R.rules[category]
             count == ColumnCount(rangeRaw)
             helperRow == [idx \in 1..count |->
                              IF idx = 1 /\ category \in DOMAIN RuleStore
                              THEN RuleStore[category].helper ELSE ""]
         IN  [h0 |-> combined.h0 \o Fill(count, IF category = "none" THEN "" ELSE category),
              h1 |-> IF category = "none" THEN <<"", "">> ELSE combined.h1 \o helperRow,
              rows |-> [k \in 1..Len(sortedEntries) |->
                          (IF k \in 1..Len(combined.rows) THEN combined.rows[k] ELSE << >>)
                          \o RowOrBlanks(rangeRaw, R.rowIndex[sortedEntries[k]], count)]]

RECURSIVE ReduceBlocks(_, _, _, _, _)
ReduceBlocks(R, combined, k, ruleGranularity, sortedEntries) ==
    IF k > Len(R.ruleKeys) THEN combined
    ELSE ReduceBlocks(R, ReduceBlock(R, combined, R.ruleKeys[k], ruleGranularity, sortedEntries),
                      k + 1, ruleGranularity, sortedEntries)

\* The header loop of getValues, for (c = length - 1; c > 0; c--), from cell c
\* (0-based) down: values[0][c] = values[0][c - 1] === values[0][c] ? '' : values[0][c].
RECURSIVE SkipLoop(_, _)
SkipLoop(h0, c) ==
    IF c <= 0 THEN h0
    ELSE SkipLoop([h0 EXCEPT ![c + 1] = IF h0[c] = h0[c + 1] THEN "" ELSE h0[c + 1]], c - 1)

\* The same loop run from the left, for (c = 1; c < length; c++).
RECURSIVE SkipLoopUp(_, _)
SkipLoopUp(h0, c) ==
    IF c >= Len(h0) THEN h0
    ELSE SkipLoopUp([h0 EXCEPT ![c + 1] = IF h0[c] = h0[c + 1] THEN "" ELSE h0[c + 1]], c + 1)

\* A getValues whose header loop runs from the left.
SkipRepeatsFromLeft(h0) == SkipLoopUp(h0, 1)

\* The header loop of getValues.
SkipRepeats(h0) == SkipLoop(h0, Len(h0) - 1)

\* getValues(ruleGranularity): the grid returned and the rowIndex committed.
getValues(R, ruleGranularity) ==
    LET sortedEntries == SortedEntries(R.rowIndex, DOMAIN R.rowIndex)
        combined == ReduceBlocks(R, [h0 |-> << >>, h1 |-> << >>, rows |-> << >>], 1,
                                 ruleGranularity, sortedEntries)
        anyBlock == \E k \in 1..Len(R.ruleKeys) : Emitted(R, R.ruleKeys[k], ruleGranularity)
    IN  [values |-> <<SkipRepeats(combined.h0), combined.h1>> \o combined.rows,
         rowIndex |-> IF anyBlock
                      THEN [id \in DOMAIN R.rowIndex |->
                               (CHOOSE k \in 1..Len(sortedEntries) : sortedEntries[k] = id) - 1
                               + SHEET_TOP_PADDING]
                      ELSE R.rowIndex]

\* makeCampaignIndexedSettings(headers, currentSettings): id -> label -> value.
RECURSIVE IndexCells(_, _, _, _)
IndexCells(result, headers, row, c) ==
    IF c >= Len(row) THEN result
    ELSE LET campaignId == At(row, 0)
             old == IF campaignId \in DOMAIN result THEN result[campaignId] ELSE << >>
         IN  IndexCells((campaignId :> ((At(headers, c - 1) :> At(row, c)) @@ old)) @@ result,
                        headers, row, c + 1)

RECURSIVE IndexRows(_, _, _, _)
IndexRows(result, headers, currentSettings, i) ==
    IF i > Len(currentSettings) THEN result
    ELSE IndexRows(IndexCells(result, headers, currentSettings[i], 1),
                   headers, currentSettings, i + 1)

makeCampaignIndexedSettings(headers, currentSettings) ==
    IndexRows(<< >>, headers, currentSettings, 1)

\* The label -> parameter key map of fillRuleValues (a later parameter with the
\* same label replaces an earlier one).
paramsByHeader(rule, label) ==
    LET idx == {i \in 1..Len(rule.params) : rule.params[i].label = label}
    IN  rule.params[CHOOSE i \in idx : \A j \in idx : j <= i].key

\* indexByHeader: label -> declared index.
indexByHeader(rule) ==
    [label \in {rule.params[i].label : i \in 1..Len(rule.params)} |->
        (CHOOSE i \in 1..Len(rule.params) :
            /\ rule.params[i].label = label
            /\ \A j \in 1..Len(rule.params) : rule.params[j].label = label => j <= i) - 1]

\* rule.defaults[key]
DefaultOf(rule, key) ==
    IF key \in DOMAIN rule.defaults THEN rule.defaults[key] ELSE Undefined

\* `${rule.granularity} Name`
GranularityName(granularity) == granularity \o " Name"

\* The loop of fillRuleValues over the records of getRows.
RECURSIVE FillRecords(_, _, _, _, _)
FillRecords(R, rule, currentSettings, records, i) ==
    IF i > Len(records) THEN R
    ELSE LET record == records[i]
             cells == [index \in 1..Len(rule.params) |->
                          LET label == rule.params[index].label
                          IN  IF record.id \in DOMAIN currentSettings
                                 /\ label \in DOMAIN currentSettings[record.id]
                              THEN currentSettings[record.id][label]
                              ELSE ""]
             R1 == setRow(R, rule.name, record.id, cells)
             R2 == setRow(R1, "none", record.id, <<record.id, record.displayName>>)
         IN  FillRecords(R2, rule, currentSettings, records, i + 1)

\* A fillRuleValues that keeps every tracked id.
PruneNothing(R, inSystem) == R

\* The last loop of fillRuleValues: delete this.rowIndex[row] for the rows not
\* in inSystem.
Prune(R, inSystem) ==
    [R EXCEPT !.rowIndex = [id \in DOMAIN R.rowIndex \cap inSystem |-> R.rowIndex[id]]]

\* fillRuleValues(rule), getRows(rule.granularity) returning records; the rule
\* declares a defaults map (the call throws before any change otherwise).
\* fillRuleValues, lines 298-300: `if (!rule.defaults) throw`.
fillRuleValuesThrows(rule) == "defaults" \notin DOMAIN rule

\* The range a late failure would leave: the column order cached and the
\* two ID rows written before the defaults are first read.
RangeAtLateThrow(R, rule) ==
    LET R0 == [R EXCEPT !.columnOrders =
                  IF rule.name \in DOMAIN R.columnOrders THEN R.columnOrders
                  ELSE (rule.name :> indexByHeader(rule)) @@ R.columnOrders]
        R1 == setRow(R0, "none", "ID", <<"ID", GranularityName(rule.granularity)>>)
    IN  setRow(R1, rule.name, "ID",
               [index \in 1..Len(rule.params) |-> rule.params[index].label])

\* The range as the throw of lines 298-300 leaves it: the guard is the
\* first statement of the method, nothing has been assigned yet.
RangeAtThrow(R, rule) == R

\* An inSystem set that holds the ids of the records only.
InSystemRecordsOnly(records) == {records[i].id : i \in 1..Len(records)}

\* inSystem: 'ID', 'default' and the id of every record of getRows.
InSystem(records) == {"ID", "default"} \cup {records[i].id : i \in 1..Len(records)}

\* fillRuleValues past the guard, for a rule that declares defaults.
fillRuleValues(R, rule, records) ==
    LET headers == [index \in 1..Len(rule.params) |-> rule.params[index].label]
        R0 == [R EXCEPT !.columnOrders =
                  IF rule.name \in DOMAIN R.columnOrders THEN R.columnOrders
                  ELSE (rule.name :> indexByHeader(rule)) @@ R.columnOrders]
        ruleValues == getRule(R, rule.name)
        currentSettings ==
            makeCampaignIndexedSettings(
                IF Len(ruleValues) > 0 THEN Slice(ruleValues[1], 1, Len(ruleValues[1]))
                ELSE << >>,
                ruleValues)
        R1 == setRow(R0, "none", "ID", <<"ID", GranularityName(rule.granularity)>>)
        R2 == setRow(R1, rule.name, "ID", headers)
        R3 == setRow(R2, "none", "default", <<"default", "">>)
        R4 == setRow(R3, rule.name, "default",
                     [index \in 1..Len(rule.params) |->
                         LET label == headers[index]
                         IN  IF "default" \in DOMAIN currentSettings
                                /\ label \in DOMAIN currentSettings["default"]
                             THEN currentSettings["default"][label]
                             ELSE DefaultOf(rule, paramsByHeader(rule, label))])
        R5 == FillRecords(R4, rule, currentSettings, records, 1)
    IN  Prune(R5, InSystem(records))

-----------------------------------------------------------------------------
(* SettingMap.  A record is a sequence of <<key, value>> pairs in property
   order; the map is a sequence of [id, record] entries in insertion order. *)

\* key in record
HasKey(record, key) == \E k \in 1..Len(record) : record[k][1] = key

\* record[key]
ValueOf(record, key) ==
    IF HasKey(record, key)
    THEN record[CHOOSE k \in 1..Len(record) : record[k][1] = key][2]
    ELSE Undefined

\* map.has(id)
MapHas(entries, id) == \E k \in 1..Len(entries) : entries[k].id = id

\* map.get(id) || {}
MapGetOrEmpty(entries, id) ==
    IF MapHas(entries, id)
    THEN entries[CHOOSE k \in 1..Len(entries) : entries[k].id = id].record
    ELSE << >>

\* map.set(id, record): an id already in the map keeps its place.
MapSet(entries, id, record) ==
    IF MapHas(entries, id)
    THEN [k \in 1..Len(entries) |->
             IF entries[k].id = id THEN [id |-> id, record |-> record] ELSE entries[k]]
    ELSE Append(entries, [id |-> id, record |-> record])

\* new Map(values)
RECURSIVE NewMap(_, _)
NewMap(entries, values) ==
    IF values = << >> THEN entries
    ELSE NewMap(MapSet(entries, Head(values).id, Head(values).record), Tail(values))

\* new SettingMap(values), values not empty.
NewSettingMap(values) ==
    [entries |-> NewMap(<< >>, values),
     keys |-> [k \in 1..Len(values[1].record) |-> values[1].record[k][1]]]

\* headers.indexOf(label), 0-based, -1 when the label is not a header.
IndexOf(headers, label) ==
    IF \E c \in 1..Len(headers) : headers[c] = label
    THEN (CHOOSE c \in 1..Len(headers) :
             headers[c] = label /\ \A d \in 1..(c - 1) : headers[d] # label) - 1
    ELSE -1

\* A forEachRow that reads the parameters by position, not by header label.
forEachRowByPosition(headers, mapper, row) ==
    [id |-> At(row, 0),
     record |-> [k \in 1..Len(mapper) |-> <<mapper[k].key, At(row, k)>>]]

\* forEachRow of transformToParamValues
forEachRow(headers, mapper, row) ==
    [id |-> At(row, 0),
     record |-> [k \in 1..Len(mapper) |->
                    <<mapper[k].key, At(row, IndexOf(headers, mapper[k].label))>>]]

\* Whether transformToParamValues(rawSettings, mapper) throws:
\* if (rawSettings.length < 2) throw new Error(...)
transformToParamValuesThrows(rawSettings) == Len(rawSettings) < 2

\* transformToParamValues(rawSettings, mapper), rawSettings of two rows or more
\* (the call throws otherwise).
transformToParamValues(rawSettings, mapper) ==
    NewSettingMap([r \in 1..(Len(rawSettings) - 1) |->
                      forEachRow(rawSettings[1], mapper, rawSettings[r + 1])])

\* A get that returns the record of empty strings without storing it.
getWithoutSet(S, id) ==
    [result |-> IF MapHas(S.entries, id) THEN MapGetOrEmpty(S.entries, id)
                ELSE [k \in 1..Len(S.keys) |-> <<S.keys[k], "">>],
     map |-> S]

\* SettingMap.get(id): the record returned and the map after the call.
get(S, id) ==
    IF MapHas(S.entries, id)
    THEN [result |-> MapGetOrEmpty(S.entries, id), map |-> S]
    ELSE LET newObj == [k \in 1..Len(S.keys) |-> <<S.keys[k], "">>]
         IN  [result |-> newObj, map |-> [S EXCEPT !.entries = MapSet(@, id, newObj)]]

\* !(key in campaignValue) || campaignValue[key] === '' ? defaultValue[key] : campaignValue[key]
RawValue(campaignValue, defaultValue, key) ==
    IF ~ HasKey(campaignValue, key) \/ ValueOf(campaignValue, key) = ""
    THEN ValueOf(defaultValue, key)
    ELSE ValueOf(campaignValue, key)

\* SettingMap.getOrDefault(id)
getOrDefault(S, id) ==
    LET defaultValue == MapGetOrEmpty(S.entries, "default")
        campaignValue == MapGetOrEmpty(S.entries, id)
    IN  [k \in 1..Len(S.keys) |->
            LET value == RawValue(campaignValue, defaultValue, S.keys[k])
            IN  <<S.keys[k], IF value = Undefined THEN "" ELSE value>>]

\* SettingMap.entries()
entries(S) ==
    [k \in 1..Len(S.entries) |->
        <<S.entries[k].id,
          [c \in 1..Len(S.entries[k].record) |-> S.entries[k].record[c][2]]>>]

\* SettingMap.set(id, setting)
set(S, id, setting) == [S EXCEPT !.entries = MapSet(@, id, setting)]

-----------------------------------------------------------------------------
(* The inputs of the model *)

\* Rule definitions (name, params in declaration order, defaults, granularity).
RuleA ==
    [name |-> "A",
     params |-> <<[key |-> "p1", label |-> "l1"], [key |-> "p2", label |-> "l2"]>>,
     defaults |-> ("p1" :> "d1") @@ ("p2" :> "d2") @@ ("p3" :> "d3"),
     granularity |-> "g1"]

\* Rule A with its parameters declared in the other order.
RuleAReordered ==
    [RuleA EXCEPT !.params = <<[key |-> "p2", label |-> "l2"], [key |-> "p1", label |-> "l1"]>>]

\* Rule A after parameter p2 was dropped and p3 added.
RuleAChanged ==
    [RuleA EXCEPT !.params = <<[key |-> "p3", label |-> "l3"], [key |-> "p1", label |-> "l1"]>>]

\* Rule A declaring no parameter.
RuleANoParams == [RuleA EXCEPT !.params = << >>]

RuleB ==
    [name |-> "B",
     params |-> <<[key |-> "q1", label |-> "m1"]>>,
     defaults |-> ("q1" :> "e1"),
     granularity |-> "g1"]

\* A definition that declares no defaults map: the field is absent.
RuleNoDefaults ==
    [name |-> "A",
     params |-> <<[key |-> "p1", label |-> "l1"], [key |-> "p2", label |-> "l2"]>>,
     granularity |-> "g1"]

RuleDefinitions ==
    {RuleA, RuleAReordered, RuleAChanged, RuleANoParams, RuleB, RuleNoDefaults}

\* The records getRows may return.
Record1 == [id |-> "1", displayName |-> "c1"]
Record2 == [id |-> "2", displayName |-> "c2"]
Record3 == [id |-> "3", displayName |-> "c3"]
RowSets == {<< >>, <<Record1>>, <<Record1, Record2>>, <<Record2, Record1>>, <<Record3, Record1>>}

\* The sheets a range is built from.
EmptySheet == << <<"">> >>

\* A sheet as initializeRules writes it for rule A and two campaigns.
SheetA ==
    << <<"", "", "A", "">>,
       <<"", "", "hA", "">>,
       <<"ID", "g1 Name", "l1", "l2">>,
       <<"default", "", "d1", "">>,
       <<"1", "c1", "a", "">>,
       <<"2", "c2", "", "b">> >>

\* A sheet holding the block of a rule that is no longer declared, and the
\* columns of A in another order.
SheetOldA ==
    << <<"", "", "Old", "A", "">>,
       <<"", "", "", "hA", "">>,
       <<"ID", "g1 Name", "o1", "l2", "l1">>,
       <<"default", "", "x", "d2", "">>,
       <<"2", "c2", "y", "b", "a">> >>

\* The grid of the rule-range scenario: one identity column, no helper row.
SheetScenario ==
    << <<"", "A", "">>,
       <<"ID", "l1", "l2">>,
       <<"default", "", "d2">>,
       <<"1", "a", "">> >>

\* A sheet as initializeRules writes it while getRows returns no campaign.
SheetNoCampaigns ==
    << <<"", "", "A", "">>,
       <<"", "", "hA", "">>,
       <<"ID", "g1 Name", "l1", "l2">>,
       <<"default", "", "", "d2">> >>

\* A sheet with the blocks of two rules, of two and of three columns.
SheetAB ==
    << <<"", "", "A", "", "B", "", "">>,
       <<"", "", "hA", "", "", "", "">>,
       <<"ID", "g1 Name", "l1", "l2", "m1", "m2", "m3">>,
       <<"default", "", "d1", "", "e1", "", "">>,
       <<"1", "c1", "a", "", "", "x", "">> >>

\* A sheet edited by hand: two rows carry the same id.
SheetTwoRows ==
    << <<"", "", "A", "">>,
       <<"", "", "hA", "">>,
       <<"ID", "g1 Name", "l1", "l2">>,
       <<"1", "c1", "a", "">>,
       <<"1", "c1", "", "b">> >>

\* A sheet edited by hand: two blocks carry the same rule name.
SheetTwoBlocks ==
    << <<"", "", "A", "A">>,
       <<"", "", "hA", "">>,
       <<"ID", "g1 Name", "l1", "l2">>,
       <<"1", "c1", "a", "b">> >>

Sheets ==
    {EmptySheet, SheetA, SheetOldA, SheetScenario, SheetNoCampaigns, SheetAB,
     SheetTwoRows, SheetTwoBlocks}

Categories == {"none", "A"}
RowIds == {"", "1", "3", "default"}
Columns == {<<"b">>, <<"3", "b">>}
Granularities == {"", "g1"}

-----------------------------------------------------------------------------
(* The state machine: one range and the calls made on it *)

Commit(R) ==
    /\ rowIndex' = R.rowIndex
    /\ rules' = R.rules
    /\ ruleKeys' = R.ruleKeys
    /\ length' = R.length
    /\ columnOrders' = R.columnOrders

\* new RuleRange(sheet, client)
\* Settings grids: the scenario of the specification; a grid whose entity row
\* is shorter than the header; a grid without a 'default' row; a grid whose
\* header lacks the label l2; a grid with an id on two rows.
SettingsScenario == << <<"ID", "l1", "l2">>, <<"default", "", "d2">>, <<"1", "a", "">> >>
SettingsShortRow == << <<"ID", "l1", "l2">>, <<"default", "d1", "d2">>, <<"1", "a">> >>
SettingsNoDefault == << <<"ID", "l1", "l2">>, <<"1", "", "b">> >>
SettingsNoLabel == << <<"ID", "l1">>, <<"default", "d1">>, <<"1", "a">> >>
SettingsTwice == << <<"ID", "l2", "l1">>, <<"1", "b", "a">>, <<"default", "d2", "">>, <<"1", "", "">> >>
\* Grids of no row, of a header row only, and of one column.
SettingsNoRow == << >>
SettingsHeaderOnly == << <<"ID", "l1", "l2">> >>
SettingsOneColumn == << <<"ID">>, <<"default">>, <<"1">> >>
SettingsGrids ==
    {SettingsScenario, SettingsShortRow, SettingsNoDefault, SettingsNoLabel, SettingsTwice,
     SettingsNoRow, SettingsHeaderOnly, SettingsOneColumn}

\* The ids looked up and the settings stored by the callers.
SettingIds == {"1", "2", "default"}
SettingRecords ==
    { << <<"p1", "s">>, <<"p2", "">> >>, << <<"p2", "t">> >>, << <<"p2", "t">>, <<"p1", "s">> >> }

\* The range and the calls made on it.
NoRange ==
    /\ rowIndex = EmptyRange.rowIndex
    /\ rules = EmptyRange.rules
    /\ ruleKeys = EmptyRange.ruleKeys
    /\ length = EmptyRange.length
    /\ columnOrders = EmptyRange.columnOrders
    /\ last = [op |-> "none", pre |-> EmptyRange, args |-> << >>, values |-> << >>]
    /\ history = [pruned |-> FALSE, getValuesCalls |-> 0, setRowCalls |-> 0,
                   getRowsCalls |-> 0, unfit |-> FALSE]

\* No pass has been made.
NoRun ==
    [op |-> "none", rules |-> << >>, pc |-> "idle", outcomes |-> << >>, started |-> << >>,
     awaited |-> << >>, calls |-> << >>, thrown |-> FALSE]

NoPass ==
    /\ ruleSheets = << >>
    /\ pass = [op |-> "none", pre |-> << >>, args |-> << >>, written |-> << >>,
               validations |-> {}]
    /\ monitor = NoRun

\* No migrate() call has been made.
NoMigration ==
    /\ sheet_version = ""
    /\ applied = << >>
    /\ migration = [op |-> "none", pre |-> "", args |-> << >>, events |-> << >>, result |-> 0,
                    initial |-> ""]
    /\ comparison = [op |-> "none", args |-> << >>, result |-> 0]

NoFrontEnd == NoPass /\ NoMigration

\* A Client after its constructor: an empty ruleStore, no call made.
NoClient ==
    [ruleStore |-> << >>, added |-> << >>, instances |-> 0, pc |-> "idle", thresholds |-> << >>,
     atCall |-> << >>, outcomes |-> << >>, events |-> << >>, next |-> 1, thrown |-> FALSE,
     calls |-> 0]

\* toExport before lazyLoadApp, no front end built.
NoBinding ==
    [toExport |-> << >>, factoryCalls |-> 0, invoked |-> << >>, calls |-> << >>]

\* No launchMonitor pass has been started on the sheet.
NoSession ==
    [pc |-> "idle", sheet |-> << >>, rules |-> << >>, settings |-> << >>, edit |-> << >>,
     passes |-> 0]

\* A Client after its constructor: campaignReport undefined (0), no
\* buildReport invocation, no call made, nothing in the script cache.
NoReport ==
    [campaignReport |-> 0, builds |-> 0, calls |-> << >>, cache |-> FALSE]

\* No initializeSheets call has been made.
NoStartup ==
    [pc |-> "idle", identity |-> TRUE, calls |-> << >>, modals |-> 0, outcome |-> "none"]

NoApp ==
    /\ client = NoClient
    /\ binding = NoBinding
    /\ session = NoSession
    /\ report = NoReport
    /\ startup = NoStartup
OnlyClient ==
    binding = NoBinding /\ session = NoSession /\ report = NoReport /\ startup = NoStartup
OnlyBinding ==
    client = NoClient /\ session = NoSession /\ report = NoReport /\ startup = NoStartup
OnlySession ==
    client = NoClient /\ binding = NoBinding /\ report = NoReport /\ startup = NoStartup
OnlyReport ==
    client = NoClient /\ binding = NoBinding /\ session = NoSession /\ startup = NoStartup
OnlyStartup ==
    client = NoClient /\ binding = NoBinding /\ session = NoSession /\ report = NoReport

\* No SettingMap is under observation.
NoSettingMap ==
    /\ settingMap = [entries |-> << >>, keys |-> << >>]
    /\ call = [op |-> "none", pre |-> << >>, args |-> << >>, result |-> << >>]

Init ==
    \E sheet \in Sheets :
        LET R == Construct(sheet)
        IN  /\ NoSettingMap
            /\ NoFrontEnd
            /\ NoApp
            /\ rowIndex = R.rowIndex
            /\ rules = R.rules
            /\ ruleKeys = R.ruleKeys
            /\ length = R.length
            /\ columnOrders = R.columnOrders
            /\ last = [op |-> "new", pre |-> EmptyRange, args |-> <<sheet>>, values |-> << >>]
            /\ history = [pruned |-> FALSE, getValuesCalls |-> 0, setRowCalls |-> 0,
                   getRowsCalls |-> 0, unfit |-> FALSE]
            /\ steps = 0

SetRow ==
    \E category \in Categories, id \in RowIds, column \in Columns :
        /\ steps < MaxSteps
        /\ Commit(setRow(Self, category, id, column))
        /\ last' = [op |-> "setRow", pre |-> Self, args |-> <<category, id, column>>,
                    values |-> << >>]
        /\ history' = [history EXCEPT
                          !.setRowCalls = @ + 1,
                          !.unfit = @ \/ ( /\ category \in DOMAIN rules
                                           /\ ColumnCount(rules[category]) # Len(column) )]
        /\ steps' = steps + 1
        /\ UNCHANGED <<settingVars, frontEndVars, appVars>>

FillRuleValues ==
    \E rule \in RuleDefinitions, records \in RowSets :
        /\ steps < MaxSteps
        /\ IF fillRuleValuesThrows(rule)
           THEN /\ Commit(RangeAtThrow(Self, rule))
                /\ last' = [op |-> "fillRuleValuesThrows", pre |-> Self,
                            args |-> <<rule>>, values |-> << >>]
                /\ history' = history
           ELSE /\ Commit(fillRuleValues(Self, rule, records))
                /\ last' = [op |-> "fillRuleValues", pre |-> Self,
                            args |-> <<rule, records>>, values |-> << >>]
                /\ history' = [history EXCEPT
                                  !.pruned = @ \/ ~ (DOMAIN rowIndex \subseteq DOMAIN rowIndex'),
                                  !.getRowsCalls = @ + 1]
        /\ steps' = steps + 1
        /\ UNCHANGED <<settingVars, frontEndVars, appVars>>

GetValues ==
    \E ruleGranularity \in Granularities :
        /\ steps < MaxSteps
        /\ IF getValuesThrows(Self, ruleGranularity)
           THEN /\ rowIndex' = rowIndex
                /\ last' = [op |-> "getValuesThrows", pre |-> Self,
                            args |-> <<ruleGranularity>>, values |-> << >>]
                /\ history' = history
           ELSE LET result == getValues(Self, ruleGranularity)
                IN  /\ rowIndex' = result.rowIndex
                    /\ last' = [op |-> "getValues", pre |-> Self,
                                args |-> <<ruleGranularity>>, values |-> result.values]
                    /\ history' = [history EXCEPT !.getValuesCalls = @ + 1]
        /\ steps' = steps + 1
        /\ UNCHANGED <<rules, ruleKeys, length, columnOrders>>
        /\ UNCHANGED <<settingVars, frontEndVars, appVars>>

Next == SetRow \/ FillRuleValues \/ GetValues

Spec == Init /\ [][Next]_vars

-----------------------------------------------------------------------------
(* The SettingMap of a rule: built by transformToParamValues from a settings
   grid, then read and written by the callers. *)

InitSettingMap ==
    \E rawSettings \in SettingsGrids :
        /\ NoRange
        /\ NoFrontEnd
        /\ NoApp
        /\ IF transformToParamValuesThrows(rawSettings)
           THEN /\ settingMap = [entries |-> << >>, keys |-> << >>]
                /\ call = [op |-> "throw", pre |-> << >>, args |-> <<rawSettings>>,
                           result |-> << >>]
           ELSE /\ settingMap = transformToParamValues(rawSettings, RuleA.params)
                /\ call = [op |-> "new", pre |-> << >>, args |-> <<rawSettings>>,
                           result |-> << >>]
        /\ steps = 0

\* A SettingMap was returned to the caller.
Built == call.op # "throw"

Get ==
    \E id \in SettingIds :
        /\ steps < MaxSteps
        /\ Built
        /\ settingMap' = get(settingMap, id).map
        /\ call' = [op |-> "get", pre |-> settingMap, args |-> <<id>>,
                    result |-> get(settingMap, id).result]
        /\ steps' = steps + 1
        /\ UNCHANGED <<rangeVars, frontEndVars, appVars>>

GetOrDefault ==
    \E id \in SettingIds :
        /\ steps < MaxSteps
        /\ Built
        /\ call' = [op |-> "getOrDefault", pre |-> settingMap, args |-> <<id>>,
                    result |-> getOrDefault(settingMap, id)]
        /\ steps' = steps + 1
        /\ UNCHANGED <<settingMap, rangeVars, frontEndVars, appVars>>

Entries ==
    /\ steps < MaxSteps
    /\ Built
    /\ call' = [op |-> "entries", pre |-> settingMap, args |-> << >>,
                result |-> entries(settingMap)]
    /\ steps' = steps + 1
    /\ UNCHANGED <<settingMap, rangeVars, frontEndVars, appVars>>

Set ==
    \E id \in SettingIds, setting \in SettingRecords :
        /\ steps < MaxSteps
        /\ Built
        /\ settingMap' = set(settingMap, id, setting)
        /\ call' = [op |-> "set", pre |-> settingMap, args |-> <<id, setting>>,
                    result |-> << >>]
        /\ steps' = steps + 1
        /\ UNCHANGED <<rangeVars, frontEndVars, appVars>>

NextSettingMap == Get \/ GetOrDefault \/ Entries \/ Set

SpecSettingMap == InitSettingMap /\ [][NextSettingMap]_vars

-----------------------------------------------------------------------------
(* initializeRules: one reconciliation pass over the rule-settings sheets *)

\* Lines 452-457: the rules grouped by granularity, the groups in the order
\* in which each granularity first occurs (Object.entries of the reduce).
RECURSIVE GroupByGranularity(_, _)
GroupByGranularity(prev, ruleClasses) ==
    IF ruleClasses = << >> THEN prev
    ELSE LET rule == Head(ruleClasses)
             sheetName == rule.granularity
             pushed ==
                 IF \E k \in 1..Len(prev) : prev[k].sheetName = sheetName
                 THEN [k \in 1..Len(prev) |->
                          IF prev[k].sheetName = sheetName
                          THEN [prev[k] EXCEPT !.ruleClasses = Append(@, rule)]
                          ELSE prev[k]]
                 ELSE Append(prev, [sheetName |-> sheetName, ruleClasses |-> <<rule>>])
         IN  GroupByGranularity(pushed, Tail(ruleClasses))

\* getOrCreateSheet: the sheet of that name, created blank when there is none.
getOrCreateSheet(sheets, sheetName) ==
    IF sheetName \in DOMAIN sheets THEN sheets
    ELSE (sheetName :> EmptySheet) @@ sheets

\* Line 451: numberOfHeaders; line 465 starts the running column after it.
numberOfHeaders == 3

\* Lines 465-478: fillRuleValues for each rule of a sheet, in order; the
\* first failure ends the loop and the pass. Each rule's offset is the
\* running column before it, which then advances by the width of the rule's
\* rows less their id cell (ruleValues[0].length - 1).
RECURSIVE FillRules(_, _, _, _, _, _)
FillRules(R, ruleClasses, records, i, currentOffset, offsets) ==
    IF i > Len(ruleClasses) THEN [range |-> R, thrown |-> FALSE, offsets |-> offsets]
    ELSE IF fillRuleValuesThrows(ruleClasses[i])
         THEN [range |-> RangeAtThrow(R, ruleClasses[i]), thrown |-> TRUE,
               offsets |-> offsets]
         ELSE LET filled == fillRuleValues(R, ruleClasses[i], records)
                  ruleValues == getRule(filled, ruleClasses[i].name)
              IN  IF ruleValues = << >>
                  THEN [range |-> filled, thrown |-> TRUE, offsets |-> offsets]
                  ELSE FillRules(filled, ruleClasses, records, i + 1,
                                 currentOffset + Len(ruleValues[1]) - 1,
                                 (ruleClasses[i].name :> currentOffset - 1) @@ offsets)

\* Lines 491-497: the calls addValidation(ruleSheet, param, column) of one
\* sheet, as <<sheet, rule, position of the parameter, column>>, the column
\* 1-based as getRange takes it.
Validations(sheetName, ruleClasses, offsets) ==
    {<<sheetName, ruleClasses[i].name, idx, offsets[ruleClasses[i].name] + idx>> :
        <<i, idx>> \in {<<i, idx>> \in (1..Len(ruleClasses)) \X (0..3) :
                            idx < Len(ruleClasses[i].params)}}

\* Lines 459-510, for the sheets from the k-th on: each sheet is read,
\* reconciled rule by rule, then cleared and written, before the next sheet
\* is opened.
RECURSIVE ReconcileSheets(_, _, _, _)
ReconcileSheets(state, groups, k, getRows) ==
    IF k > Len(groups) THEN state
    ELSE LET sheetName == groups[k].sheetName
             sheets == getOrCreateSheet(state.sheets, sheetName)
             filled == FillRules(Construct(sheets[sheetName]), groups[k].ruleClasses,
                                 getRows[sheetName], 1, numberOfHeaders + 1, << >>)
         IN  IF filled.thrown
             THEN [state EXCEPT !.sheets = sheets, !.thrown = TRUE]
             ELSE ReconcileSheets(
                      [state EXCEPT
                          !.sheets = [sheets EXCEPT
                                         ![sheetName] = getValues(filled.range, "").values],
                          !.written = Append(@, sheetName),
                          !.validations =
                              @ \cup Validations(sheetName, groups[k].ruleClasses,
                                                 filled.offsets)],
                      groups, k + 1, getRows)

initializeRules(sheets, ruleClasses, getRows) ==
    ReconcileSheets([sheets |-> sheets, written |-> << >>, thrown |-> FALSE,
                     validations |-> {}],
                    GroupByGranularity(<< >>, ruleClasses), 1, getRows)

\* Rule definitions of a second granularity, with and without defaults.
RuleC ==
    [name |-> "C",
     params |-> <<[key |-> "q1", label |-> "n1"]>>,
     defaults |-> ("q1" :> "f1"),
     granularity |-> "g2"]

RuleCNoDefaults ==
    [name |-> "C",
     params |-> <<[key |-> "q1", label |-> "n1"]>>,
     granularity |-> "g2"]

\* injectedArgs.rules
RuleLists ==
    { <<RuleA, RuleC>>, <<RuleA, RuleCNoDefaults>>, <<RuleNoDefaults, RuleC>>,
      <<RuleC, RuleA, RuleB>>, <<RuleB, RuleA>> }

\* getRows, by granularity.
RowSources ==
    { ("g1" :> <<Record1>>) @@ ("g2" :> <<Record3>>),
      ("g1" :> <<Record1, Record2>>) @@ ("g2" :> << >>) }

\* The rule-settings sheets a spreadsheet may hold when it is opened.
InitialSheets ==
    { << >>, ("g1" :> SheetA), ("g1" :> SheetOldA),
      ("g1" :> SheetAB) @@ ("g2" :> EmptySheet) }

InitInitializeRules ==
    /\ NoRange
    /\ NoSettingMap
    /\ NoApp
    /\ NoMigration
    /\ ruleSheets \in InitialSheets
    /\ pass = [op |-> "none", pre |-> << >>, args |-> << >>, written |-> << >>,
               validations |-> {}]
    /\ monitor = NoRun
    /\ steps = 0

InitializeRules ==
    \E ruleClasses \in RuleLists, getRows \in RowSources :
        /\ steps < MaxSteps
        /\ LET result == initializeRules(ruleSheets, ruleClasses, getRows)
           IN  /\ ruleSheets' = result.sheets
               /\ pass' = [op |-> IF result.thrown THEN "initializeRulesThrows"
                                  ELSE "initializeRules",
                           pre |-> ruleSheets,
                           args |-> <<ruleClasses, getRows>>,
                           written |-> result.written,
                           validations |-> result.validations]
        /\ steps' = steps + 1
        /\ UNCHANGED <<rangeVars, settingVars, migrateVars, monitor, appVars>>

NextInitializeRules == InitializeRules

SpecInitializeRules == InitInitializeRules /\ [][NextInitializeRules]_vars

-----------------------------------------------------------------------------
(* migrate: the sheet migrations between the stored and the target version *)

\* getProperty of a property that has never been set.
Null == "null"

\* ver.split('.').map(Number), for the version strings of the model.
Segments(version) ==
    CASE version = "" -> <<0>>
      [] version = "0" -> <<0>>
      [] version = "1.0" -> <<1, 0>>
      [] version = "1.1" -> <<1, 1>>
      [] version = "1.2" -> <<1, 2>>
      [] version = "2.0" -> <<2, 0>>
      [] version = "3.0" -> <<3, 0>>
      [] version = "2" -> <<2>>
      [] version = "1.9" -> <<1, 9>>
      [] version = "1.10" -> <<1, 10>>
      [] version = "1.20" -> <<1, 20>>
      [] version = "0.9.9" -> <<0, 9, 9>>
      [] version = "1.0.1" -> <<1, 0, 1>>
      [] version = "1.2.0" -> <<1, 2, 0>>
      [] version = "1.10.0" -> <<1, 10, 0>>
      [] version = "2.0.0" -> <<2, 0, 0>>

RECURSIVE Pow10(_)
Pow10(n) == IF n = 0 THEN 1 ELSE 10 * Pow10(n - 1)

\* The sum of sortMigrations from segment i on, every term multiplied by
\* 10^(n-1) so that it stays an integer: the sign, and being zero, are those
\* of the code's sum of (keys1[i] - keys2[i]) / 10^i.
RECURSIVE Difference(_, _, _, _)
Difference(keys1, keys2, i, n) ==
    IF i > n THEN 0
    ELSE ((IF i <= Len(keys1) THEN keys1[i] ELSE 0)
          - (IF i <= Len(keys2) THEN keys2[i] ELSE 0)) * Pow10(n - i)
         + Difference(keys1, keys2, i + 1, n)

\* A comparison of the first segments only.
sortMigrationsFirstSegment(ver1, ver2) == Segments(ver1)[1] - Segments(ver2)[1]

sortMigrations(ver1, ver2) ==
    LET keys1 == Segments(ver1)
        keys2 == Segments(ver2)
    IN  Difference(keys1, keys2, 1,
                   IF Len(keys1) > Len(keys2) THEN Len(keys1) ELSE Len(keys2))

\* Array.prototype.sort with sortMigrations as comparator (stable).
RECURSIVE InsertVersion(_, _)
InsertVersion(sorted, version) ==
    IF sorted = << >> THEN <<version>>
    ELSE IF sortMigrations(version, sorted[Len(sorted)]) >= 0
         THEN Append(sorted, version)
         ELSE Append(InsertVersion(SubSeq(sorted, 1, Len(sorted) - 1), version),
                     sorted[Len(sorted)])

RECURSIVE SortVersions(_, _)
SortVersions(sorted, versions) ==
    IF versions = << >> THEN sorted
    ELSE SortVersions(InsertVersion(sorted, Head(versions)), Tail(versions))

\* Lines 813-815: the loop ends at the first migration that is not below
\* the target version.
PastTarget(version, target) == sortMigrations(version, target) >= 0

\* Lines 812-824, from the i-th migration on. A migration that throws ends
\* the call; one that completes is followed by the write of its version.
RECURSIVE MigrationLoop(_, _, _, _, _, _)
MigrationLoop(state, migrations, i, sheetVersion, target, failing) ==
    IF i > Len(migrations) \/ PastTarget(migrations[i], target) THEN state
    ELSE LET version == migrations[i]
         IN  IF sortMigrations(version, sheetVersion) > 0
             THEN IF version = failing
                  THEN [state EXCEPT !.events = @ \o << <<"invoke", version>> >>,
                                     !.thrown = TRUE]
                  ELSE MigrationLoop(
                           [state EXCEPT
                               !.events = @ \o << <<"invoke", version>>,
                                                  <<"complete", version>>,
                                                  <<"persist", version>> >>,
                               !.property = version,
                               !.numberOfMigrations = @ + 1],
                           migrations, i + 1, sheetVersion, target, failing)
             ELSE MigrationLoop(state, migrations, i + 1, sheetVersion, target, failing)

\* A migrate() that leaves the property as the loop left it.
ForceTargetNever(sheetVersion, target) == FALSE

\* Lines 825-828: the property is set to the target version when the version
\* read at the start differs from it.
ForceTarget(sheetVersion, target) == sheetVersion # target

\* migrate(), for the script property as stored, the declared migrations,
\* the target version (injectedArgs.version) and the migration that throws
\* in this call, if any.
migrate(property, declared, target, failing) ==
    LET sheetVersion == IF property = Null THEN "0" ELSE property
        start == IF sheetVersion = ""
                 THEN [property |-> target, events |-> << <<"persist", target>> >>,
                       numberOfMigrations |-> 0, thrown |-> FALSE]
                 ELSE [property |-> property, events |-> << >>,
                       numberOfMigrations |-> 0, thrown |-> FALSE]
        looped == MigrationLoop(start, SortVersions(<< >>, declared), 1,
                                sheetVersion, target, failing)
    IN  IF looped.thrown THEN looped
        ELSE IF ForceTarget(sheetVersion, target)
             THEN [looped EXCEPT !.property = target,
                                 !.events = @ \o << <<"persist", target>> >>]
             ELSE looped

\* injectedArgs.migrations, in the order of declaration.
Migrations == <<"2.0", "1.1", "1.2">>

\* The sets of migrations a front end may declare: the one above, and one
\* with a two-digit segment.
MigrationLists == {Migrations, <<"2.0", "1.10">>}

\* injectedArgs.version
Targets == {"1.2", "2.0", "3.0"}

\* The property when the spreadsheet is opened.
StoredVersions == {Null, "", "1.0", "1.1", "2.0"}

\* The migration that throws in a call; "none" when every migration completes.
Failures == {"none", "1.1", "1.2", "2.0"}

\* The versions of the migrations that completed in a call.
Completed(events) ==
    SelectSeq(events, LAMBDA e : e[1] = "complete")

InitMigrate ==
    \E target \in Targets, declared \in MigrationLists :
        /\ NoRange
        /\ NoSettingMap
        /\ NoApp
        /\ NoPass
        /\ sheet_version \in StoredVersions
        /\ applied = << >>
        /\ comparison = [op |-> "none", args |-> << >>, result |-> 0]
        /\ migration = [op |-> "none", pre |-> sheet_version, args |-> <<target, declared>>,
                        events |-> << >>, result |-> 0, initial |-> sheet_version]
        /\ steps = 0

Migrate ==
    \E failing \in Failures :
        /\ steps < MaxSteps
        /\ LET target == migration.args[1]
               declared == migration.args[2]
               result == migrate(sheet_version, declared, target, failing)
           IN  /\ sheet_version' = result.property
               /\ applied' = applied \o
                                 [k \in 1..Len(Completed(result.events)) |->
                                     Completed(result.events)[k][2]]
               /\ migration' = [op |-> IF result.thrown THEN "migrateThrows" ELSE "migrate",
                                pre |-> sheet_version,
                                args |-> <<target, declared>>,
                                events |-> result.events,
                                result |-> result.numberOfMigrations,
                                initial |-> migration.initial]
        /\ steps' = steps + 1
        /\ UNCHANGED <<rangeVars, settingVars, passVars, comparison, appVars>>

NextMigrate == Migrate

SpecMigrate == InitMigrate /\ [][NextMigrate]_vars

-----------------------------------------------------------------------------
(* sortMigrations on its own: two version strings and the number returned *)

\* Version strings: one to three segments, segments of one and of two digits.
Versions ==
    {"0", "2", "1.0", "1.1", "1.2", "1.9", "1.10", "1.20", "2.0", "3.0",
     "0.9.9", "1.0.1", "1.2.0", "1.10.0", "2.0.0"}

InitSortMigrations ==
    /\ NoRange
    /\ NoSettingMap
    /\ NoApp
    /\ NoPass
    /\ sheet_version = ""
    /\ applied = << >>
    /\ migration = [op |-> "none", pre |-> "", args |-> << >>, events |-> << >>, result |-> 0,
                    initial |-> ""]
    /\ \E ver1 \in Versions, ver2 \in Versions :
          comparison = [op |-> "none", args |-> <<ver1, ver2>>, result |-> 0]
    /\ steps = 0

SortMigrations ==
    /\ comparison.op = "none"
    /\ comparison' = [op |-> "sortMigrations", args |-> comparison.args,
                      result |-> sortMigrations(comparison.args[1], comparison.args[2])]
    /\ steps' = steps + 1
    /\ UNCHANGED <<rangeVars, settingVars, passVars, sheet_version, applied, migration, appVars>>

NextSortMigrations == SortMigrations

SpecSortMigrations == InitSortMigrations /\ [][NextSortMigrations]_vars

-----------------------------------------------------------------------------
(* launchMonitor and preLaunchQa: the rule runs and the writes after them *)

\* Object.values(this.client.ruleStore): the rules of a run, in store order,
\* for the stores a front end may hold.
RuleStores == {<< >>, <<"A">>, <<"A", "B">>, <<"A", "B", "C">>}

\* What each rule's run() promise settles to in one run.
RunOutcomes(storeRules) ==
    [{storeRules[k] : k \in 1..Len(storeRules)} -> {"resolves", "rejects"}]

\* The calls after the barrier.
WriteBackCalls ==
    <<"saveSettingsBackToSheets", "populateRuleResultsInSheets", "maybeSendEmailAlert">>

\* A launchMonitor that does not wait for validate().
ValidateCompletedEarly(m) == TRUE

\* `await this.client.validate()` (line 602) and the loop of preLaunchQa
\* (lines 553-554) are past: every rule's run has been awaited.
ValidateCompleted(m) == Len(m.awaited) = Len(m.rules)

InitMonitor ==
    /\ NoRange
    /\ NoSettingMap
    /\ NoApp
    /\ NoMigration
    /\ ruleSheets = << >>
    /\ pass = [op |-> "none", pre |-> << >>, args |-> << >>, written |-> << >>,
               validations |-> {}]
    /\ \E storeRules \in RuleStores : monitor = [NoRun EXCEPT !.rules = storeRules]
    /\ steps = 0

\* launchMonitor up to its second await: initializeSheets has completed and
\* validate() has called the first rule's run.
LaunchMonitor ==
    \E outcomes \in RunOutcomes(monitor.rules) :
        /\ steps < MaxSteps
        /\ monitor.pc = "idle"
        /\ monitor' = [op |-> "launchMonitor", rules |-> monitor.rules, pc |-> "validate", outcomes |-> outcomes,
                       started |-> IF monitor.rules = << >> THEN << >>
                                   ELSE <<monitor.rules[1]>>,
                       awaited |-> << >>,
                       calls |-> <<"initializeSheets", "validate">>, thrown |-> FALSE]
        /\ steps' = steps + 1
        /\ UNCHANGED <<rangeVars, settingVars, migrateVars, ruleSheets, pass, appVars>>

\* validate(): the awaited run settles. A rejection ends validate() and
\* launchMonitor; otherwise the next rule's run is called.
ValidateRun ==
    /\ monitor.pc = "validate"
    /\ ~ ValidateCompleted(monitor)
    /\ LET rule == monitor.rules[Len(monitor.awaited) + 1]
       IN  IF monitor.outcomes[rule] = "rejects"
           THEN monitor' = [monitor EXCEPT !.pc = "idle", !.thrown = TRUE]
           ELSE monitor' = [monitor EXCEPT
                               !.awaited = Append(@, rule),
                               !.started = IF Len(@) < Len(monitor.rules)
                                           THEN Append(@, monitor.rules[Len(@) + 1])
                                           ELSE @]
    /\ UNCHANGED <<rangeVars, settingVars, migrateVars, ruleSheets, pass, steps, appVars>>

\* launchMonitor after validate(): lines 603-605.
WriteBack ==
    /\ monitor.pc = "validate"
    /\ ValidateCompleted(monitor)
    /\ monitor' = [monitor EXCEPT !.pc = "idle", !.calls = @ \o WriteBackCalls]
    /\ UNCHANGED <<rangeVars, settingVars, migrateVars, ruleSheets, pass, steps, appVars>>

\* preLaunchQa up to the loop over the thresholds: initializeRules has
\* completed and run() has been called on every rule of the store.
PreLaunchQa ==
    \E outcomes \in RunOutcomes(monitor.rules) :
        /\ steps < MaxSteps
        /\ monitor.pc = "idle"
        /\ monitor' = [op |-> "preLaunchQa", rules |-> monitor.rules, pc |-> "thresholds", outcomes |-> outcomes,
                       started |-> monitor.rules, awaited |-> << >>,
                       calls |-> <<"initializeRules">>, thrown |-> FALSE]
        /\ steps' = steps + 1
        /\ UNCHANGED <<rangeVars, settingVars, migrateVars, ruleSheets, pass, appVars>>

\* preLaunchQa, `await threshold`: the next run settles.
AwaitThreshold ==
    /\ monitor.pc = "thresholds"
    /\ Len(monitor.awaited) < Len(monitor.rules)
    /\ LET rule == monitor.rules[Len(monitor.awaited) + 1]
       IN  IF monitor.outcomes[rule] = "rejects"
           THEN monitor' = [monitor EXCEPT !.pc = "idle", !.thrown = TRUE]
           ELSE monitor' = [monitor EXCEPT !.awaited = Append(@, rule)]
    /\ UNCHANGED <<rangeVars, settingVars, migrateVars, ruleSheets, pass, steps, appVars>>

\* preLaunchQa after the loop: the results sheet is cleared and written.
WriteResults ==
    /\ monitor.pc = "thresholds"
    /\ Len(monitor.awaited) = Len(monitor.rules)
    /\ monitor' = [monitor EXCEPT !.pc = "idle",
                                  !.calls = Append(@, "Pre-Launch QA Results")]
    /\ UNCHANGED <<rangeVars, settingVars, migrateVars, ruleSheets, pass, steps, appVars>>

NextMonitor ==
    LaunchMonitor \/ ValidateRun \/ WriteBack \/ PreLaunchQa \/ AwaitThreshold \/ WriteResults

SpecMonitor == InitMonitor /\ [][NextMonitor]_vars

-----------------------------------------------------------------------------
(* Client: addRule and validate *)

\* The rule names given to addRule.
RuleNames == {"A", "B", "C"}

\* this.ruleStore[rule.definition.name] = new rule(this, settingsArray): a name
\* the store holds keeps its place among the properties and gets the new
\* instance; a new name becomes the last property.
addRule(ruleStore, name, instance) ==
    IF \E k \in 1..Len(ruleStore) : ruleStore[k].name = name
    THEN [k \in 1..Len(ruleStore) |->
             IF ruleStore[k].name = name THEN [name |-> name, instance |-> instance]
             ELSE ruleStore[k]]
    ELSE Append(ruleStore, [name |-> name, instance |-> instance])

\* The store after the addRule calls of a list of names, instances numbered
\* by call.
RECURSIVE AddAll(_, _, _)
AddAll(ruleStore, names, i) ==
    IF i > Len(names) THEN ruleStore
    ELSE AddAll(addRule(ruleStore, names[i], i), names, i + 1)

\* The addRule calls made on a Client before the first step.
AddedLists ==
    {<< >>, <<"A">>, <<"A", "B">>, <<"B", "A">>, <<"A", "B", "A">>, <<"A", "B", "C">>}

\* A validate() that goes on to the next rule after a rejected run.
SettleAndContinue(c, outcome) ==
    LET threshold == c.thresholds[c.next]
        done == c.next + 1 > Len(c.thresholds)
    IN  IF outcome = "rejects"
        THEN [c EXCEPT !.events = Append(@, <<"run", threshold.name, threshold.instance>>),
                       !.next = @ + 1,
                       !.pc = IF done THEN "idle" ELSE "validate"]
        ELSE [c EXCEPT !.events = @ \o <<<<"run", threshold.name, threshold.instance>>,
                                         <<"saveValues", threshold.name, threshold.instance>>>>,
                       !.next = @ + 1,
                       !.pc = IF done THEN "idle" ELSE "validate"]

\* One iteration of the loop of validate(): the rule's run is called and
\* awaited; a rejection leaves the loop and validate(), a resolution is
\* followed by saveValues and the next iteration.
Settle(c, outcome) ==
    LET threshold == c.thresholds[c.next]
        done == c.next + 1 > Len(c.thresholds)
    IN  IF outcome = "rejects"
        THEN [c EXCEPT !.events = Append(@, <<"run", threshold.name, threshold.instance>>),
                       !.pc = "idle", !.thrown = TRUE]
        ELSE [c EXCEPT !.events = @ \o <<<<"run", threshold.name, threshold.instance>>,
                                         <<"saveValues", threshold.name, threshold.instance>>>>,
                       !.next = @ + 1,
                       !.pc = IF done THEN "idle" ELSE "validate"]

InitClient ==
    /\ NoRange
    /\ NoSettingMap
    /\ NoFrontEnd
    /\ OnlyClient
    /\ \E added \in AddedLists :
          client = [NoClient EXCEPT !.added = added,
                                    !.ruleStore = AddAll(<< >>, added, 1),
                                    !.instances = Len(added)]
    /\ steps = 0

\* addRule(rule, settingsArray)
AddRule ==
    \E name \in RuleNames :
        /\ steps < MaxSteps
        /\ client' = [client EXCEPT
                         !.ruleStore = addRule(@, name, client.instances + 1),
                         !.added = Append(@, name),
                         !.instances = @ + 1]
        /\ steps' = steps + 1
        /\ UNCHANGED <<rangeVars, settingVars, frontEndVars, notClient>>

\* validate() up to its loop: the run functions of the rules of the store
\* are collected, in the order of Object.values(this.ruleStore).
Validate ==
    \E outcomes \in [RuleNames -> {"resolves", "rejects"}] :
        /\ steps < MaxSteps
        /\ client.pc = "idle"
        /\ client' = [client EXCEPT
                         !.thresholds = client.ruleStore,
                         !.atCall = client.added,
                         !.outcomes = outcomes,
                         !.events = << >>,
                         !.next = 1,
                         !.thrown = FALSE,
                         !.calls = @ + 1,
                         !.pc = IF client.ruleStore = << >> THEN "idle" ELSE "validate"]
        /\ steps' = steps + 1
        /\ UNCHANGED <<rangeVars, settingVars, frontEndVars, notClient>>

\* validate(), one iteration of the loop (lines 182-185).
RunThreshold ==
    /\ client.pc = "validate"
    /\ client' = Settle(client, client.outcomes[client.thresholds[client.next].name])
    /\ UNCHANGED <<rangeVars, settingVars, frontEndVars, notClient, steps>>

NextClient == AddRule \/ Validate \/ RunThreshold

SpecClient == InitClient /\ [][NextClient]_vars

-----------------------------------------------------------------------------
(* lazyLoadApp: the entry points of toExport *)

\* ScriptEntryPoints
EntryPoints ==
    {"onOpen", "initializeSheets", "preLaunchQa", "launchMonitor", "displayGlossary",
     "displaySetupGuide"}

\* What an entry point is called with: a PropertyStore (it has getProperty)
\* or an Apps Script event.
Arguments == {"PropertyStore", "event"}

\* The entry points applyBinding assigns to the front end's bound methods.
BoundByApplyBinding == {"onOpen", "initializeSheets", "preLaunchQa", "launchMonitor"}

\* The function returned by load, among the front ends 1, 2, ... whose bound
\* methods toExport may hold.
Load == 0

\* lazyLoadApp: every entry point is the function returned by load.
lazyLoadApp == [fnName \in EntryPoints |-> Load]

\* applyBinding's function: the factory is called and the entry points are
\* rebound to the front end it returned.
applyBinding(b, scriptProperties) ==
    LET frontend == b.factoryCalls + 1
    IN  [b EXCEPT !.factoryCalls = frontend,
                  !.toExport = [fnName \in EntryPoints |->
                                   IF fnName \in BoundByApplyBinding THEN frontend
                                   ELSE b.toExport[fnName]]]

\* toExport[fnName](argument): the function of load builds the front end
\* through applyBinding's function and calls the method of the switch; a
\* bound method is called on its front end.
invoke(b, fnName, argument) ==
    LET called == [b EXCEPT !.invoked = Append(@, <<fnName, argument>>)]
    IN  IF b.toExport[fnName] = Load
        THEN LET built == applyBinding(called, IF argument = "PropertyStore" THEN argument
                                               ELSE "AppsScriptPropertyStore")
             IN  [built EXCEPT !.calls = Append(@, <<built.factoryCalls, fnName>>)]
        ELSE [called EXCEPT !.calls = Append(@, <<b.toExport[fnName], fnName>>)]

InitLazyLoad ==
    /\ NoRange
    /\ NoSettingMap
    /\ NoFrontEnd
    /\ OnlyBinding
    /\ binding = [NoBinding EXCEPT !.toExport = lazyLoadApp]
    /\ steps = 0

\* An entry point of toExport is invoked.
Invoke ==
    \E fnName \in EntryPoints, argument \in Arguments :
        /\ steps < MaxSteps
        /\ binding' = invoke(binding, fnName, argument)
        /\ steps' = steps + 1
        /\ UNCHANGED <<rangeVars, settingVars, frontEndVars, notBinding>>

NextLazyLoad == Invoke

SpecLazyLoad == InitLazyLoad /\ [][NextLazyLoad]_vars

-----------------------------------------------------------------------------
(* launchMonitor over one rule-settings sheet, and the user editing it *)

\* The granularity of the sheet of the pass.
SessionGranularity == "g1"

\* injectedArgs.rules, all of the granularity of the sheet.
SessionRules == {<<RuleA>>, <<RuleA, RuleB>>, <<RuleB, RuleA>>}

\* The sheets the pass may find.
SessionSheets == {EmptySheet, SheetA, SheetNoCampaigns, SheetAB}

\* What the user types into a cell.
UserValue == "u"

\* initializeRules, lines 470-478, for the rules from the i-th on: after
\* fillRuleValues the rule is added to the client with the rows of its
\* block, from which its constructor builds rule.settings.
RECURSIVE AddRules(_, _, _, _)
AddRules(state, ruleClasses, records, i) ==
    IF i > Len(ruleClasses) THEN state
    ELSE LET rule == ruleClasses[i]
             filled == fillRuleValues(state.range, rule, records)
             ruleValues == getRule(filled, rule.name)
         IN  AddRules([range |-> filled,
                       settings |-> (rule.name :> transformToParamValues(ruleValues, rule.params))
                                    @@ state.settings],
                      ruleClasses, records, i + 1)

\* range.setValues(values) on the range getRange(1, 1, values.length,
\* values[0].length) of a sheet: the cells of the range are replaced, the
\* cells outside it stay.
setValues(sheet, values) ==
    [r \in 1..(IF Len(sheet) > Len(values) THEN Len(sheet) ELSE Len(values)) |->
        IF r > Len(values) THEN sheet[r]
        ELSE values[r] \o (IF r <= Len(sheet) /\ Len(sheet[r]) > Len(values[r])
                            THEN SubSeq(sheet[r], Len(values[r]) + 1, Len(sheet[r]))
                            ELSE << >>)]

\* The loop of saveSettingsBackToSheets over rule.settings.entries().
RECURSIVE SetRows(_, _, _, _)
SetRows(R, ruleName, settingEntries, k) ==
    IF k > Len(settingEntries) THEN R
    ELSE SetRows(setRow(R, ruleName, settingEntries[k][1], settingEntries[k][2]),
                 ruleName, settingEntries, k + 1)

\* The loop of saveSettingsBackToSheets over the rules.
RECURSIVE SaveRules(_, _, _, _)
SaveRules(R, ruleClasses, settings, i) ==
    IF i > Len(ruleClasses) THEN R
    ELSE SaveRules(SetRows(R, ruleClasses[i].name, entries(settings[ruleClasses[i].name]), 1),
                   ruleClasses, settings, i + 1)

\* saveSettingsBackToSheets(rules): the sheet is read into a new range, the
\* settings of every rule are set into it row by row, and the range is
\* written back.
saveSettingsBackToSheets(sheet, ruleClasses, settings) ==
    setValues(sheet,
              getValues(SaveRules(Construct(sheet), ruleClasses, settings, 1),
                        SessionGranularity).values)

InitSession ==
    /\ NoRange
    /\ NoSettingMap
    /\ NoFrontEnd
    /\ OnlySession
    /\ \E sheet \in SessionSheets : session = [NoSession EXCEPT !.sheet = sheet]
    /\ steps = 0

\* launchMonitor up to client.validate(): initializeRules reconciles the
\* sheet, adds the rules to the client and writes the sheet.
StartPass ==
    \E ruleClasses \in SessionRules, records \in RowSets :
        /\ steps < MaxSteps
        /\ session.pc = "idle"
        /\ LET added == AddRules([range |-> Construct(session.sheet), settings |-> << >>],
                                 ruleClasses, records, 1)
           IN  session' = [pc |-> "validate",
                           sheet |-> getValues(added.range, "").values,
                           rules |-> ruleClasses,
                           settings |-> added.settings,
                           edit |-> << >>,
                           passes |-> session.passes + 1]
        /\ steps' = steps + 1
        /\ UNCHANGED <<rangeVars, settingVars, frontEndVars, notSession>>

\* The user types a value into a parameter cell of the sheet while the rules
\* run.
UserEdit ==
    \E r \in (SHEET_TOP_PADDING + 2)..Len(session.sheet) :
        \E c \in 3..Len(session.sheet[r]) :
            /\ session.pc = "validate"
            /\ session.edit = << >>
            /\ session' = [session EXCEPT !.sheet[r][c] = UserValue,
                                           !.edit = <<r, c, session.sheet[r][1]>>]
            /\ UNCHANGED <<rangeVars, settingVars, frontEndVars, notSession, steps>>

\* launchMonitor after client.validate(): the write-back of line 603.
SaveSettingsBack ==
    /\ session.pc = "validate"
    /\ session' = [session EXCEPT
                      !.pc = "idle",
                      !.sheet = saveSettingsBackToSheets(session.sheet, session.rules,
                                                         session.settings)]
    /\ UNCHANGED <<rangeVars, settingVars, frontEndVars, notSession, steps>>

NextSession == StartPass \/ UserEdit \/ SaveSettingsBack

SpecSession == InitSession /\ [][NextSession]_vars

-----------------------------------------------------------------------------
(* Client.getCampaignReport and Client.getAllCampaigns *)

\* !this.campaignReport
ReportMissing(r) == r.campaignReport = 0

\* getCampaignReport() up to its await: with no report
\* stored buildReport is invoked and awaited; otherwise the stored report is
\* returned.
getCampaignReport(r, method) ==
    IF ReportMissing(r)
    THEN [r EXCEPT !.builds = @ + 1,
                   !.calls = Append(@, [method |-> method, pc |-> "await", build |-> r.builds + 1,
                                        result |-> 0])]
    ELSE [r EXCEPT !.calls = Append(@, [method |-> method, pc |-> "returned", build |-> 0,
                                        result |-> r.campaignReport]),
                   !.cache = @ \/ method = "getAllCampaigns"]

\* getAllCampaigns() up to its await: the cached campaigns are returned, or
\* getCampaignReport() is called.
getAllCampaigns(r) ==
    IF r.cache
    THEN [r EXCEPT !.calls = Append(@, [method |-> "getAllCampaigns", pc |-> "cached",
                                        build |-> 0, result |-> 0])]
    ELSE getCampaignReport(r, "getAllCampaigns")

\* The build awaited by the k-th call settles: a resolution is stored in
\* campaignReport and returned (getAllCampaigns then puts the campaigns
\* into the cache); a rejection rejects the call.
settle(r, k, outcome) ==
    IF outcome = "rejects"
    THEN [r EXCEPT !.calls[k].pc = "rejected"]
    ELSE [r EXCEPT !.campaignReport = r.calls[k].build,
                   !.calls[k].pc = "returned",
                   !.calls[k].result = r.calls[k].build,
                   !.cache = @ \/ r.calls[k].method = "getAllCampaigns"]

InitReport ==
    /\ NoRange
    /\ NoSettingMap
    /\ NoFrontEnd
    /\ OnlyReport
    /\ \E cached \in BOOLEAN : report = [NoReport EXCEPT !.cache = cached]
    /\ steps = 0

\* A caller (a rule's run, for one) calls getCampaignReport().
GetCampaignReport ==
    /\ steps < MaxSteps
    /\ report' = getCampaignReport(report, "getCampaignReport")
    /\ steps' = steps + 1
    /\ UNCHANGED <<rangeVars, settingVars, frontEndVars, notReport>>

\* A caller calls getAllCampaigns().
GetAllCampaigns ==
    /\ steps < MaxSteps
    /\ report' = getAllCampaigns(report)
    /\ steps' = steps + 1
    /\ UNCHANGED <<rangeVars, settingVars, frontEndVars, notReport>>

\* The promise of a buildReport invocation settles.
SettleBuild ==
    \E k \in 1..Len(report.calls), outcome \in {"resolves", "rejects"} :
        /\ report.calls[k].pc = "await"
        /\ report' = settle(report, k, outcome)
        /\ UNCHANGED <<rangeVars, settingVars, frontEndVars, notReport, steps>>

\* The cached campaigns expire (they are put for 60 seconds).
CacheExpires ==
    /\ report.cache
    /\ report' = [report EXCEPT !.cache = FALSE]
    /\ UNCHANGED <<rangeVars, settingVars, frontEndVars, notReport, steps>>

NextReport == GetCampaignReport \/ GetAllCampaigns \/ SettleBuild \/ CacheExpires

SpecReport == InitReport /\ [][NextReport]_vars

-----------------------------------------------------------------------------
(* initializeSheets: the identity check, migrate(), initializeRules() *)

\* The displaySetupModal calls counted; further calls leave the count.
MaxModals == 3

\* displaySetupModal() {}: the call returns and advertiserId is as it was.
displaySetupModal(advertiserId) == advertiserId

InitInitializeSheets ==
    \E target \in Targets, declared \in MigrationLists, identity \in BOOLEAN :
        /\ NoRange
        /\ NoSettingMap
        /\ OnlyStartup
        /\ monitor = NoRun
        /\ ruleSheets \in InitialSheets
        /\ pass = [op |-> "none", pre |-> << >>, args |-> << >>, written |-> << >>,
               validations |-> {}]
        /\ sheet_version \in StoredVersions
        /\ applied = << >>
        /\ comparison = [op |-> "none", args |-> << >>, result |-> 0]
        /\ migration = [op |-> "none", pre |-> sheet_version, args |-> <<target, declared>>,
                        events |-> << >>, result |-> 0, initial |-> sheet_version]
        /\ startup = [NoStartup EXCEPT !.identity = identity]
        /\ steps = 0

\* initializeSheets() is called: line 782, `if (!this.getIdentity())`.
InitializeSheets ==
    /\ steps < MaxSteps
    /\ startup.pc = "idle"
    /\ startup' = [startup EXCEPT
                      !.pc = IF startup.identity THEN "migrate" ELSE "setup",
                      !.calls = <<"getIdentity">>,
                      !.modals = 0,
                      !.outcome = "none"]
    /\ steps' = steps + 1
    /\ UNCHANGED <<rangeVars, settingVars, frontEndVars, notStartup>>

\* Lines 783-787: one turn of `while (!advertiserId) this.displaySetupModal()`
\* with advertiserId = ''.
DisplaySetupModal ==
    /\ startup.pc = "setup"
    /\ startup' = [startup EXCEPT
                      !.pc = IF displaySetupModal("") = "" THEN "setup" ELSE "migrate",
                      !.calls = IF startup.modals < MaxModals
                                THEN Append(@, "displaySetupModal") ELSE @,
                      !.modals = IF @ < MaxModals THEN @ + 1 ELSE @]
    /\ UNCHANGED <<rangeVars, settingVars, frontEndVars, notStartup, steps>>

\* Line 791: this.migrate(). A migration that throws ends initializeSheets.
MigrateStep ==
    \E failing \in Failures :
        /\ startup.pc = "migrate"
        /\ LET target == migration.args[1]
               declared == migration.args[2]
               result == migrate(sheet_version, declared, target, failing)
           IN  /\ sheet_version' = result.property
               /\ applied' = applied \o
                                 [k \in 1..Len(Completed(result.events)) |->
                                     Completed(result.events)[k][2]]
               /\ migration' = [op |-> IF result.thrown THEN "migrateThrows" ELSE "migrate",
                                pre |-> sheet_version,
                                args |-> <<target, declared>>,
                                events |-> result.events,
                                result |-> result.numberOfMigrations,
                                initial |-> migration.initial]
               /\ startup' = [startup EXCEPT
                                 !.pc = IF result.thrown THEN "idle" ELSE "initializeRules",
                                 !.calls = Append(@, "migrate"),
                                 !.outcome = IF result.thrown THEN "thrown" ELSE @]
        /\ UNCHANGED <<rangeVars, settingVars, passVars, comparison, notStartup, steps>>

\* Line 793: await this.initializeRules().
InitializeRulesStep ==
    \E ruleClasses \in RuleLists, getRows \in RowSources :
        /\ startup.pc = "initializeRules"
        /\ LET result == initializeRules(ruleSheets, ruleClasses, getRows)
           IN  /\ ruleSheets' = result.sheets
               /\ pass' = [op |-> IF result.thrown THEN "initializeRulesThrows"
                                  ELSE "initializeRules",
                           pre |-> ruleSheets,
                           args |-> <<ruleClasses, getRows>>,
                           written |-> result.written,
                           validations |-> result.validations]
               /\ startup' = [startup EXCEPT
                                 !.pc = "idle",
                                 !.calls = Append(@, "initializeRules"),
                                 !.outcome = IF result.thrown THEN "thrown" ELSE "completed"]
        /\ UNCHANGED <<rangeVars, settingVars, migrateVars, monitor, notStartup, steps>>

NextInitializeSheets ==
    InitializeSheets \/ DisplaySetupModal \/ MigrateStep \/ InitializeRulesStep

\* MigrateStep as startup shows it: this.migrate() returns or throws.
MigrateReturns ==
    /\ startup.pc = "migrate"
    /\ startup' \in {[startup EXCEPT !.pc = "initializeRules", !.calls = Append(@, "migrate")],
                      [startup EXCEPT !.pc = "idle", !.calls = Append(@, "migrate"),
                                      !.outcome = "thrown"]}

\* InitializeRulesStep as startup shows it: initializeRules() resolves or
\* rejects.
InitializeRulesReturns ==
    /\ startup.pc = "initializeRules"
    /\ startup' \in {[startup EXCEPT !.pc = "idle", !.calls = Append(@, "initializeRules"),
                                      !.outcome = "completed"],
                      [startup EXCEPT !.pc = "idle", !.calls = Append(@, "initializeRules"),
                                      !.outcome = "thrown"]}

\* The script runs on once initializeSheets has been called: the loop takes
\* its next turn, and migrate() and initializeRules(), which return or throw
\* on every input of the model, do so.
SpecInitializeSheets ==
    /\ InitInitializeSheets
    /\ [][NextInitializeSheets]_vars
    /\ WF_vars(DisplaySetupModal)
    /\ WF_startup(MigrateReturns)
    /\ WF_startup(InitializeRulesReturns)

-----------------------------------------------------------------------------
(* Vocabulary of the claims *)

Tracked == DOMAIN rowIndex
Sentinels == {"ID", "default"}

\* The ids of the records a getRows call returned.
IdsOf(records) == {records[i].id : i \in 1..Len(records)}

\* The elements of a finite set of numbers, ascending.
RECURSIVE Ascending(_)
Ascending(S) == IF S = {} THEN << >> ELSE <<Least(S)>> \o Ascending(S \ {Least(S)})

\* The data rows of a grid returned by getValues: the rows below the two headers.
DataRows(values) == SubSeq(values, SHEET_TOP_PADDING + 1, Len(values))

-----------------------------------------------------------------------------
(* C3 -- Pruning.  After fillRuleValues(R) the tracked ids are exactly "ID",
   "default" and the ids getRows returned; an id tracked before the call and
   not in that set is tracked no more, and no row of a later getValues()
   result (with or without a granularity) carries it as its identity. *)
C3_Pruning ==
    last.op = "fillRuleValues" =>
        LET kept == Sentinels \cup IdsOf(last.args[2])
            pruned == DOMAIN last.pre.rowIndex \ kept
        IN  /\ Tracked = kept
            /\ Tracked \cap pruned = {}
            /\ \A g \in Granularities :
                  ~ getValuesThrows(Self, g) =>
                      LET rows == DataRows(getValues(Self, g).values)
                      IN  \A k \in 1..Len(rows) : At(rows[k], 0) \notin pruned

\* A fillRuleValues call has pruned an id that held rows, and kept another.
C3_Witness ==
    /\ last.op = "fillRuleValues"
    /\ "2" \in DOMAIN last.pre.rowIndex
    /\ last.pre.rowIndex["2"] \in DOMAIN last.pre.rules["none"]
    /\ "2" \notin Tracked
    /\ "1" \in Tracked

-----------------------------------------------------------------------------
(* C6 -- Row-index uniqueness.  In every state reached by constructor, setRow,
   fillRuleValues and getValues calls, no two distinct tracked ids share a row
   position. *)
C6_UniquePositions ==
    \A i, j \in Tracked : i # j => rowIndex[i] # rowIndex[j]

-----------------------------------------------------------------------------
(* C7 -- Row-index stability.  setRow and fillRuleValues never change the
   position of an id tracked before and after the call; setRow removes no id,
   and fillRuleValues removes exactly the ids tracked before that are neither
   sentinels nor returned by getRows. *)
C7_StablePositions ==
    last.op \in {"setRow", "fillRuleValues"} =>
        LET before == last.pre.rowIndex
        IN  /\ \A id \in DOMAIN before \cap Tracked : rowIndex[id] = before[id]
            /\ last.op = "setRow" => DOMAIN before \subseteq Tracked
            /\ last.op = "fillRuleValues" =>
                  DOMAIN before \ Tracked = DOMAIN before \ (Sentinels \cup IdsOf(last.args[2]))

\* A fillRuleValues call that kept an entity tracked before it, pruned another
\* and added a new one.
C7_Witness ==
    /\ last.op = "fillRuleValues"
    /\ "1" \in DOMAIN last.pre.rowIndex /\ "1" \in Tracked
    /\ "2" \in DOMAIN last.pre.rowIndex /\ "2" \notin Tracked
    /\ "3" \notin DOMAIN last.pre.rowIndex /\ "3" \in Tracked

-----------------------------------------------------------------------------
(* C8 -- Row-index density.  While no id has been pruned (and getValues has not
   re-derived the index), the positions of the n tracked ids are exactly
   0..n-1: a new id receives the next unused index, the first new entity
   position 2. *)
C8_DensePositions ==
    (~ history.pruned /\ history.getValuesCalls = 0) =>
        {rowIndex[id] : id \in Tracked} = 0..(Cardinality(Tracked) - 1)

-----------------------------------------------------------------------------
(* C9 -- getRule(r) returns one row per tracked row position at which both
   'none' and r hold a row, the row being the identity cell of 'none' followed
   by the cells of r, by ascending position; and the empty list when r has no
   stored rows. *)
JoinedPositions(r) ==
    IF r \in DOMAIN rules
    THEN {rowIndex[id] : id \in Tracked} \cap DOMAIN rules["none"] \cap DOMAIN rules[r]
    ELSE {}

\* C9: getRule(r) is the list, by ascending position, of the joined rows of the
\* tracked positions at which both 'none' and r hold a row.
C9_GetRule ==
    \A r \in {"A", "B", "Old"} :
        LET positions == Ascending(JoinedPositions(r))
        IN  getRule(Self, r) =
                [k \in 1..Len(positions) |->
                    <<At(rules["none"][positions[k]], 0)>> \o rules[r][positions[k]]]

-----------------------------------------------------------------------------
(* C10 -- The first getValues() call returns the two header rows followed by
   exactly one row per tracked id, by ascending rowIndex; within each emitted
   block the row of an id holds the cells stored for the id in that block, or
   one blank cell per block column when the block has no row for the id. *)

\* The blocks a getValues call emits, in the order of the rules map.
RECURSIVE EmittedBlocks(_, _, _)
EmittedBlocks(R, g, k) ==
    IF k > Len(R.ruleKeys) THEN << >>
    ELSE (IF Emitted(R, R.ruleKeys[k], g) THEN <<R.ruleKeys[k]>> ELSE << >>)
         \o EmittedBlocks(R, g, k + 1)

\* The cells of the row at a position, block after block.
RECURSIVE CellsAt(_, _, _)
CellsAt(R, blocks, pos) ==
    IF blocks = << >> THEN << >>
    ELSE (IF pos \in DOMAIN R.rules[Head(blocks)] THEN R.rules[Head(blocks)][pos]
          ELSE Fill(ColumnCount(R.rules[Head(blocks)]), ""))
         \o CellsAt(R, Tail(blocks), pos)

\* The row-by-row expectation of the claim on the grid of the last call.
OneRowPerTrackedId ==
    LET pre == last.pre
        ids == SortedEntries(pre.rowIndex, DOMAIN pre.rowIndex)
        blocks == EmittedBlocks(pre, last.args[1], 1)
        rows == DataRows(last.values)
    IN  /\ Len(last.values) = SHEET_TOP_PADDING + Len(ids)
        /\ \A k \in 1..Len(ids) :
              /\ k \in DOMAIN rows
              /\ rows[k] = CellsAt(pre, blocks, pre.rowIndex[ids[k]])

FirstGetValues == last.op = "getValues" /\ history.getValuesCalls = 1

\* C10: the first getValues() call returns two header rows and then one row per
\* tracked id, made of its stored cells or of blanks, block after block.
C10_FirstGetValues == FirstGetValues => OneRowPerTrackedId

\* C10 as amended: the row-by-row statement holds of a first getValues() call
\* that emits at least one block; a call that emits no block returns the two
\* empty header rows and no entity row.
C10_FirstGetValuesAmended ==
    FirstGetValues =>
        IF EmittedBlocks(last.pre, last.args[1], 1) # << >>
        THEN OneRowPerTrackedId
        ELSE last.values = << << >>, << >> >>

\* A first getValues() call on a range in which a tracked id has no row in an
\* emitted block, so that its row is filled with blanks there.
C10_Witness ==
    /\ FirstGetValues
    /\ \E c \in {"A"} : \E id \in DOMAIN last.pre.rowIndex :
          /\ c \in DOMAIN last.pre.rules
          /\ Emitted(last.pre, c, last.args[1])
          /\ last.pre.rowIndex[id] \notin DOMAIN last.pre.rules[c]
          /\ last.pre.rowIndex[id] \in DOMAIN last.pre.rules["none"]

-----------------------------------------------------------------------------
(* C1 -- Round trip.  A grid G returned by getValues() on a range reached
   through the constructor, setRow and fillRuleValues is reproduced by a fresh
   range built from G: new RuleRange(G).getValues() equals G, no row or cell
   lost.  Stated here of the ranges reached by the constructor and
   fillRuleValues alone, a part of the states the claim covers. *)
C1_RoundTrip ==
    (FirstGetValues /\ last.args[1] = "" /\ history.setRowCalls = 0) =>
        getValues(Construct(last.values), "").values = last.values

-----------------------------------------------------------------------------
(* C2 -- Value preservation.  After fillRuleValues(R), for every entity E
   returned by getRows and every parameter of R with label L, the cell of E in
   the column of L is the value stored before the call for E under header
   label L (whatever the stored column order), and the empty string when none
   was stored; compiled-in defaults are never written into an entity's row;
   the identity row of E is [id, displayName].  Stated here of the ranges no
   direct setRow call has written to, in which the row a block holds at the
   position of an id is the row stored for the id. *)

\* The row a block holds for a tracked id, or << >>.
StoredRow(R, category, id) ==
    IF /\ category \in DOMAIN R.rules
       /\ id \in DOMAIN R.rowIndex
       /\ R.rowIndex[id] \in DOMAIN R.rules[category]
    THEN R.rules[category][R.rowIndex[id]]
    ELSE << >>

\* Whether a block stores a value for an id under a header label.
HasStored(R, category, id, label) ==
    \E c \in 1..Len(StoredRow(R, category, "ID")) :
        /\ StoredRow(R, category, "ID")[c] = label
        /\ c <= Len(StoredRow(R, category, id))

\* That value: the cell of the id's row in the column whose header is the label.
StoredValue(R, category, id, label) ==
    LET header == StoredRow(R, category, "ID")
        c == CHOOSE c \in 1..Len(header) :
                 header[c] = label /\ c <= Len(StoredRow(R, category, id))
    IN  StoredRow(R, category, id)[c]

\* C2: fillRuleValues(R) leaves in the row of every entity returned by getRows
\* the value stored for it under each label of R, or "", and sets its
\* identity row to [id, displayName].
C2_ValuePreservation ==
    (last.op = "fillRuleValues" /\ history.setRowCalls = 0) =>
        LET pre == last.pre
            rule == last.args[1]
            records == last.args[2]
        IN  \A i \in 1..Len(records) :
               LET id == records[i].id
                   row == StoredRow(Self, rule.name, id)
               IN  /\ id \in Tracked
                   /\ Len(row) = Len(rule.params)
                   /\ \A index \in 1..Len(rule.params) :
                         row[index] =
                             IF HasStored(pre, rule.name, id, rule.params[index].label)
                             THEN StoredValue(pre, rule.name, id, rule.params[index].label)
                             ELSE ""
                   /\ \E j \in 1..Len(records) :
                         /\ records[j].id = id
                         /\ StoredRow(Self, "none", id) = <<id, records[j].displayName>>

-----------------------------------------------------------------------------
(* C5 -- Default row.  After fillRuleValues(R), for every parameter of R with
   key K and label L, the cell of the 'default' row for L is the value stored
   before the call in the 'default' row under header label L when one was
   stored (also when it is the empty string), and R.defaults[K] otherwise.
   Stated here of the ranges no direct setRow call has written to. *)
C5_DefaultRow ==
    (last.op = "fillRuleValues" /\ history.setRowCalls = 0) =>
        LET pre == last.pre
            rule == last.args[1]
            row == StoredRow(Self, rule.name, "default")
        IN  /\ Len(row) = Len(rule.params)
            /\ \A index \in 1..Len(rule.params) :
                  row[index] =
                      IF HasStored(pre, rule.name, "default", rule.params[index].label)
                      THEN StoredValue(pre, rule.name, "default", rule.params[index].label)
                      ELSE rule.defaults[rule.params[index].key]
-----------------------------------------------------------------------------
(* C4 -- Defaulting.  For every id E and every parameter key P of a SettingMap,
   getOrDefault(E)[P] is the value of the 'default' record for P when the value
   stored for E is empty or absent (E has no record, the record lacks P, or the
   value is missing), and the value of E otherwise; it is the empty string
   when both are missing; getOrDefault changes no stored record. *)

\* Whether a map holds no value for a key of an id.
Missing(S, id, key) ==
    \/ ~ MapHas(S.entries, id)
    \/ ~ HasKey(MapGetOrEmpty(S.entries, id), key)
    \/ ValueOf(MapGetOrEmpty(S.entries, id), key) = Undefined

\* C4: getOrDefault(E)[P] is the value of E when E holds a non-empty one, the
\* value of 'default' otherwise, "" when both are missing; the map is unchanged.
C4_Defaulting ==
    call.op = "getOrDefault" =>
        LET S == call.pre
            id == call.args[1]
        IN  /\ settingMap = S
            /\ Len(call.result) = Len(S.keys)
            /\ \A k \in 1..Len(S.keys) :
                  LET key == S.keys[k]
                      own == ValueOf(MapGetOrEmpty(S.entries, id), key)
                      default == ValueOf(MapGetOrEmpty(S.entries, "default"), key)
                  IN  call.result[k] =
                          <<key,
                            IF Missing(S, id, key) \/ own = ""
                            THEN (IF Missing(S, "default", key) THEN "" ELSE default)
                            ELSE own>>
-----------------------------------------------------------------------------
(* C11 -- Header de-duplication.  In header row 0 of a getValues() result a
   cell is the empty string exactly when it equals its immediate left
   neighbour in the header before de-duplication, and is unchanged otherwise:
   a run of k equal names becomes the name followed by k-1 blanks, and
   [A,A,B,B,B] becomes [A,"",B,"",""]. *)

\* Header row 0 as the reducer of the last getValues call left it.
RawHeader ==
    ReduceBlocks(last.pre, [h0 |-> << >>, h1 |-> << >>, rows |-> << >>], 1, last.args[1],
                 SortedEntries(last.pre.rowIndex, DOMAIN last.pre.rowIndex)).h0

C11_HeaderDeduplication ==
    /\ SkipRepeats(<<"A", "A", "B", "B", "B">>) = <<"A", "", "B", "", "">>
    /\ last.op = "getValues" =>
          /\ Len(last.values[1]) = Len(RawHeader)
          /\ \A c \in 1..Len(RawHeader) :
                last.values[1][c] =
                    IF c > 1 /\ RawHeader[c - 1] = RawHeader[c] THEN "" ELSE RawHeader[c]

\* A getValues call whose header held a run of two and a run of three equal
\* rule names.
C11_Witness ==
    /\ last.op = "getValues"
    /\ RawHeader = <<"", "", "A", "A", "B", "B", "B">>
    /\ last.values[1] = <<"", "", "A", "", "B", "", "">>
-----------------------------------------------------------------------------
(* C12 -- setRow(block, id, cells) with an empty id is a no-op: rowIndex, the
   row counter and every stored block are as before the call; hence a row of
   a raw grid whose identity cell is empty contributes nothing when setRules
   parses the grid. *)

\* A grid without the rows below its header row whose identity cell is empty.
RECURSIVE IdentifiedRows(_)
IdentifiedRows(rows) ==
    IF rows = << >> THEN << >>
    ELSE (IF At(Head(rows), 0) = "" THEN << >> ELSE <<Head(rows)>>) \o IdentifiedRows(Tail(rows))

C12_EmptyIdNoOp ==
    /\ (last.op = "setRow" /\ last.args[2] = "") => Self = last.pre
    /\ last.op = "new" =>
          Self = Construct(<<last.args[1][1]>> \o IdentifiedRows(Tail(last.args[1])))

\* A setRow call with an empty id on a range that holds the block of a rule
\* and an entity.
C12_Witness ==
    /\ last.op = "setRow"
    /\ last.args[2] = ""
    /\ "A" \in DOMAIN rules
    /\ "1" \in Tracked

\* A range built from a grid with a row whose identity cell is empty below its
\* header row.
C12_WitnessGrid ==
    /\ last.op = "new"
    /\ \E r \in 2..Len(last.args[1]) : At(last.args[1][r], 0) = ""
    /\ "1" \in Tracked
-----------------------------------------------------------------------------
(* C13 -- transformToParamValues(grid, params) maps each data row (every row
   after the first) to a record keyed by its first cell, in which each
   declared parameter key holds the cell of the row in the column whose header
   is the label of the parameter (the table being keyed, a later row replaces
   an earlier row of the same first cell); a label that is no header is not an
   error: the value of its key is missing and getOrDefault returns the empty
   string for it. *)

\* The cell of a data row under a header label, undefined when the label is no
\* header or the row ends before its column.
CellUnder(headers, row, label) ==
    IF \E c \in 1..Len(headers) : headers[c] = label /\ c <= Len(row)
    THEN row[Least({c \in 1..Len(headers) : headers[c] = label})]
    ELSE Undefined

C13_TransformToParamValues ==
    call.op = "new" =>
        LET grid == call.args[1]
            headers == grid[1]
            params == RuleA.params
        IN  /\ settingMap.keys = [k \in 1..Len(params) |-> params[k].key]
            /\ {settingMap.entries[e].id : e \in 1..Len(settingMap.entries)}
                   = {At(grid[r], 0) : r \in 2..Len(grid)}
            /\ \A r \in 2..Len(grid) :
                  (\A q \in (r + 1)..Len(grid) : At(grid[q], 0) # At(grid[r], 0)) =>
                      LET record == MapGetOrEmpty(settingMap.entries, At(grid[r], 0))
                      IN  /\ Len(record) = Len(params)
                          /\ \A k \in 1..Len(params) :
                                record[k] = <<params[k].key,
                                              CellUnder(headers, grid[r], params[k].label)>>
            /\ \A k \in 1..Len(params) :
                  (\A c \in 1..Len(headers) : headers[c] # params[k].label) =>
                      /\ \A e \in 1..Len(settingMap.entries) :
                            /\ HasKey(settingMap.entries[e].record, params[k].key)
                            /\ ValueOf(settingMap.entries[e].record, params[k].key) = Undefined
                      /\ \A id \in SettingIds : getOrDefault(settingMap, id)[k][2] = ""

\* A table built from a grid whose header lacks the label of a declared
\* parameter, and one built from a grid whose columns are not in declaration
\* order.
C13_Witness ==
    /\ call.op = "new"
    /\ call.args[1] \in {SettingsNoLabel, SettingsTwice}
    /\ Len(settingMap.entries) >= 2
-----------------------------------------------------------------------------
(* C14 -- transformToParamValues fails with an input-shape error, returning no
   table, for every grid smaller than the minimum 2 x 2 shape (fewer than 2
   rows or fewer than 2 columns), and fails for no grid of at least that
   shape. *)

\* The number of columns of a grid: the length of its header row.
ColumnsOf(grid) == IF Len(grid) = 0 THEN 0 ELSE Len(grid[1])

C14_InputShape ==
    call.op \in {"new", "throw"} =>
        (call.op = "throw" <=> (Len(call.args[1]) < 2 \/ ColumnsOf(call.args[1]) < 2))
-----------------------------------------------------------------------------
(* C15 -- SettingMap.get(id) returns the stored record when id has one;
   otherwise it stores and returns a record holding the empty string for every
   parameter key fixed at construction, so that a later get(id) returns that
   record; this materialization changes the result of getOrDefault for no
   id. *)
C15_Get ==
    call.op = "get" =>
        LET S == call.pre
            id == call.args[1]
        IN  /\ MapHas(S.entries, id) =>
                  /\ call.result = MapGetOrEmpty(S.entries, id)
                  /\ settingMap = S
            /\ ~ MapHas(S.entries, id) =>
                  /\ call.result = [k \in 1..Len(S.keys) |-> <<S.keys[k], "">>]
                  /\ settingMap.keys = S.keys
                  /\ settingMap.entries = Append(S.entries, [id |-> id, record |-> call.result])
            /\ MapHas(settingMap.entries, id)
            /\ get(settingMap, id) = [result |-> call.result, map |-> settingMap]
            /\ \A other \in SettingIds \cup {id} :
                  getOrDefault(settingMap, other) = getOrDefault(S, other)

\* A get of an id without a record on a table whose 'default' record holds a
\* value.
C15_Witness ==
    /\ call.op = "get"
    /\ ~ MapHas(call.pre.entries, call.args[1])
    /\ \E k \in 1..Len(call.pre.keys) :
          ValueOf(MapGetOrEmpty(call.pre.entries, "default"), call.pre.keys[k])
              \notin {"", Undefined}
-----------------------------------------------------------------------------
(* C16 -- SettingMap.entries() returns one (id, values) pair per stored
   record, the values listed in parameter-declaration order (the key order
   fixed at construction from the first record), also for records replaced
   through set(id, record) or materialized by get(id).  Stated here of the
   tables whose records hold every construction key and no other. *)

\* Whether every record of a table holds exactly the keys of the table.
CompleteRecords(S) ==
    \A e \in 1..Len(S.entries) :
        /\ Len(S.entries[e].record) = Len(S.keys)
        /\ \A k \in 1..Len(S.keys) : HasKey(S.entries[e].record, S.keys[k])

C16_Entries ==
    (call.op = "entries" /\ CompleteRecords(call.pre)) =>
        LET S == call.pre
        IN  /\ Len(call.result) = Len(S.entries)
            /\ \A e \in 1..Len(S.entries) :
                  call.result[e] =
                      <<S.entries[e].id,
                        [k \in 1..Len(S.keys) |-> ValueOf(S.entries[e].record, S.keys[k])]>>
\* C17: a fillRuleValues call for a rule that declares no defaults map fails
\* and leaves the range as it was: the row index, every stored block, the
\* block order, the length and the column-order cache are unchanged, and
\* getRows is not consulted by that call.
C17_MissingDefaults ==
    [][last'.op = "fillRuleValuesThrows" =>
          /\ fillRuleValuesThrows(last'.args[1])
          /\ rowIndex' = rowIndex
          /\ rules' = rules
          /\ ruleKeys' = ruleKeys
          /\ length' = length
          /\ columnOrders' = columnOrders
          /\ history'.getRowsCalls = history.getRowsCalls]_vars

\* A failed call on a range that holds blocks and has cached no column
\* order for the rule.
C17_Witness ==
    /\ last.op = "fillRuleValuesThrows"
    /\ last.pre = Self
    /\ DOMAIN rowIndex # {}
    /\ last.args[1].name \notin DOMAIN columnOrders

\* C18: when fillRuleValues fails with the missing-defaults error for a rule
\* of a pass, no rule-settings sheet has been cleared or written by that
\* pass: every sheet that existed holds the grid it held before the pass.
C18_NoPartialWrite ==
    pass.op = "initializeRulesThrows" =>
        /\ pass.written = << >>
        /\ \A g \in DOMAIN pass.pre : ruleSheets[g] = pass.pre[g]

\* The version of the property as migrate() reads it.
StoredVersion(property) == IF property = Null THEN "0" ELSE property

\* Version a precedes version b: the first segment in which they differ is
\* smaller in a (a missing segment counts as 0).
RECURSIVE SegmentsBefore(_, _)
SegmentsBefore(a, b) ==
    IF a = << >> /\ b = << >> THEN FALSE
    ELSE LET x == IF a = << >> THEN 0 ELSE Head(a)
             y == IF b = << >> THEN 0 ELSE Head(b)
         IN  IF x # y THEN x < y
             ELSE SegmentsBefore(IF a = << >> THEN a ELSE Tail(a),
                                 IF b = << >> THEN b ELSE Tail(b))

Before(a, b) == SegmentsBefore(Segments(a), Segments(b))

\* The migrations a call invoked.
Invoked(events) ==
    {events[i][2] : i \in {j \in 1..Len(events) : events[j][1] = "invoke"}}

\* The migrations of the last call's front end.
Declared == IF Len(migration.args) = 2 THEN migration.args[2] ELSE << >>

\* The declared migrations after the stored version and not after the target.
Pending(stored, target) ==
    {Declared[k] : k \in {j \in 1..Len(Declared) :
                              /\ Before(stored, Declared[j])
                              /\ ~ Before(target, Declared[j])}}

\* C19: a migrate() call that returns has invoked exactly the migrations
\* whose version v satisfies storedVersion < v <= targetVersion, the one of
\* the target version included, and returns their number. Checked here for
\* the declared migrations whose segments have one digit, a subset of the
\* claim's cases.
C19_MigrationsInvoked ==
    (migration.op = "migrate" /\ Declared = Migrations) =>
        /\ Invoked(migration.events)
              = Pending(StoredVersion(migration.pre), migration.args[1])
        /\ migration.result = Cardinality(Invoked(migration.events))

\* The versions of the migrations completed in the last call, in order.
CompletedVersions ==
    [k \in 1..Len(Completed(migration.events)) |-> Completed(migration.events)[k][2]]

\* Every completion is followed at once by the write of its version.
PersistedAfterEach ==
    \A i \in 1..Len(migration.events) :
        migration.events[i][1] = "complete" =>
            /\ i < Len(migration.events)
            /\ migration.events[i + 1] = <<"persist", migration.events[i][2]>>

\* After a failed call the property holds the version of the last migration
\* that completed in it, or what it held before the call.
FailureKeepsProgress ==
    migration.op = "migrateThrows" =>
        sheet_version = IF CompletedVersions = << >> THEN migration.pre
                        ELSE CompletedVersions[Len(CompletedVersions)]

\* No migration has completed twice.
AtMostOnce ==
    \A i, j \in 1..Len(applied) : applied[i] = applied[j] => i = j

\* Once a call has returned, every migration after the version first stored
\* and not after the target has completed.
NoneSkipped ==
    migration.op = "migrate" =>
        \A v \in Pending(StoredVersion(migration.initial), migration.args[1]) :
            \E i \in 1..Len(applied) : applied[i] = v

\* C20: migrate() writes sheet_version := v right after migration v completes
\* and before the next one is invoked; a failed call leaves the version of
\* the last completed migration (the initial value if none); over the
\* migrate() calls made with one target, no migration completes twice and
\* none between the stored and the target version is skipped. Checked here
\* for the declared migrations whose segments have one digit, a subset of the
\* claim's cases.
C20_MigrationDurability ==
    Declared = Migrations =>
        /\ PersistedAfterEach
        /\ FailureKeepsProgress
        /\ AtMostOnce
        /\ NoneSkipped

\* The sign of a number: -1, 0 or 1.
Sign(n) == IF n < 0 THEN -1 ELSE IF n > 0 THEN 1 ELSE 0

\* The comparison of two versions, segment by segment from the left as
\* numbers, a missing segment counting as 0: -1, 0 or 1.
CompareVersions(a, b) ==
    IF Before(a, b) THEN -1 ELSE IF Before(b, a) THEN 1 ELSE 0

\* C23: the sign of sortMigrations(ver1, ver2) is that of the comparison of
\* the two segment sequences taken left to right as numbers, whatever the
\* magnitude of the later segments.
C23_SortMigrationsSign ==
    comparison.op = "sortMigrations" =>
        Sign(comparison.result) = CompareVersions(comparison.args[1], comparison.args[2])

\* Every difference between corresponding segments is below 10 in absolute
\* value.
SmallDifferences(a, b) ==
    LET keys1 == Segments(a)
        keys2 == Segments(b)
        n == IF Len(keys1) > Len(keys2) THEN Len(keys1) ELSE Len(keys2)
    IN  \A i \in 1..n :
            LET d == (IF i <= Len(keys1) THEN keys1[i] ELSE 0)
                     - (IF i <= Len(keys2) THEN keys2[i] ELSE 0)
            IN  -10 < d /\ d < 10

\* C24: when every per-segment difference is below 10 in absolute value,
\* sortMigrations(ver1, ver2) is negative, zero or positive exactly when ver1
\* is older than, equal to or newer than ver2; sortMigrations("1.2.0",
\* "1.10.0") is negative.
C24_SmallDifferences ==
    comparison.op = "sortMigrations" =>
        /\ SmallDifferences(comparison.args[1], comparison.args[2]) =>
               Sign(comparison.result)
                   = CompareVersions(comparison.args[1], comparison.args[2])
        /\ comparison.args = <<"1.2.0", "1.10.0">> => comparison.result < 0

C24_Witness ==
    /\ comparison.op = "sortMigrations"
    /\ comparison.args = <<"1.2.0", "1.10.0">>
    /\ comparison.result < 0

\* The versions of the migrations the last call invoked, in the order of
\* invocation.
InvokedInOrder ==
    LET invocations == SelectSeq(migration.events, LAMBDA e : e[1] = "invoke")
    IN  [k \in 1..Len(invocations) |-> invocations[k][2]]

\* C21: migrate() invokes the migrations it applies in ascending version
\* order, the versions compared numerically segment by segment from the
\* left, whatever the set of declared migrations.
C21_AscendingInvocation ==
    \A i, j \in 1..Len(InvokedInOrder) :
        i < j => Before(InvokedInOrder[i], InvokedInOrder[j])

\* C22: when migrate() returns normally the property sheet_version equals the
\* target version, also when no migration ran; the migrate() call that
\* follows a call that returned invokes no migration and returns 0.
C22_ForcedToTarget ==
    [][/\ migration'.op = "migrate" => sheet_version' = migration'.args[1]
       /\ (migration.op = "migrate" /\ migration' # migration) =>
              /\ migration'.op = "migrate"
              /\ migration'.result = 0
              /\ \A i \in 1..Len(migration'.events) : migration'.events[i][1] # "invoke"]_vars

\* A second call after a call that ran no migration and forced the property
\* to the target.
C22_Witness ==
    /\ steps = 2
    /\ migration.op = "migrate"
    /\ migration.pre = migration.args[1]
    /\ migration.initial # migration.args[1]
    /\ applied = << >>
    /\ migration.result = 0
    /\ sheet_version = migration.args[1]

\* The writes of a run that come after the barrier.
BarrierWrites ==
    SelectSeq(monitor.calls,
              LAMBDA c : c \in {WriteBackCalls[k] : k \in 1..Len(WriteBackCalls)}
                                  \cup {"Pre-Launch QA Results"})

\* C25: no settings write-back, result population, e-mail alert or results
\* sheet write is made before every rule's run has been awaited and has
\* resolved; a rejected run ends the run of launchMonitor or preLaunchQa
\* with none of these writes, and no rule is run twice in a run.
C25_WriteBackBarrier ==
    /\ BarrierWrites # << >> =>
           /\ Len(monitor.awaited) = Len(monitor.rules)
           /\ \A k \in 1..Len(monitor.rules) : monitor.outcomes[monitor.rules[k]] = "resolves"
    /\ monitor.thrown => BarrierWrites = << >> /\ monitor.pc = "idle"
    /\ \A k \in 1..Len(monitor.awaited) : monitor.outcomes[monitor.awaited[k]] = "resolves"
    /\ \A i, j \in 1..Len(monitor.started) :
           monitor.started[i] = monitor.started[j] => i = j

\* A launchMonitor run ended by the rejection of a run after another rule's
\* run had resolved.
C25_Witness ==
    /\ monitor.op = "launchMonitor"
    /\ monitor.thrown
    /\ Len(monitor.awaited) >= 1
    /\ BarrierWrites = << >>

\* The labels a rule definition declares.
LabelsOf(rule) == {rule.params[i].label : i \in 1..Len(rule.params)}

\* C26: a fillRuleValues call for a rule whose label -> index map is already
\* cached, and which declares the same labels in any order, leaves the 'ID'
\* row of the rule's block with every label at its cached index.
C26_ColumnOrderStability ==
    last.op = "fillRuleValues" =>
        LET rule == last.args[1]
            cached == last.pre.columnOrders
        IN  (rule.name \in DOMAIN cached /\ DOMAIN cached[rule.name] = LabelsOf(rule)) =>
                LET header == StoredRow(Self, rule.name, "ID")
                IN  \A label \in LabelsOf(rule) :
                        /\ cached[rule.name][label] + 1 <= Len(header)
                        /\ header[cached[rule.name][label] + 1] = label

\* C27: after fillRuleValues(R) the 'ID' row of R's block lists the declared
\* labels, the row of every tracked id in R's block has one cell per declared
\* parameter, and no column is left for a label R no longer declares.
C27_DeclaredParameters ==
    last.op = "fillRuleValues" =>
        LET rule == last.args[1]
            header == StoredRow(Self, rule.name, "ID")
        IN  /\ header = [i \in 1..Len(rule.params) |-> rule.params[i].label]
            /\ \A id \in Tracked :
                   /\ rowIndex[id] \in DOMAIN rules[rule.name]
                   /\ Len(StoredRow(Self, rule.name, id)) = Len(rule.params)
            /\ \A c \in 1..Len(header) : header[c] \in LabelsOf(rule)

\* A call for a rule whose block held a column under a label the rule no
\* longer declares, with an entity tracked after it.
C27_Witness ==
    /\ last.op = "fillRuleValues"
    /\ Len(last.args[1].params) > 0
    /\ Tracked \ Sentinels # {}
    /\ LET old == StoredRow(last.pre, last.args[1].name, "ID")
       IN  \E c \in 1..Len(old) : old[c] \notin LabelsOf(last.args[1])

\* The blocks the claim selects for a granularity ("" for none), in block
\* order: the identity block and the rule blocks declared with it, those of
\* zero columns left out.
RECURSIVE SelectedBlocks(_, _, _)
SelectedBlocks(R, g, k) ==
    IF k > Len(R.ruleKeys) THEN << >>
    ELSE LET category == R.ruleKeys[k]
             selected ==
                 /\ ColumnCount(R.rules[category]) >= 1
                 /\ \/ category = "none"
                    \/ g = ""
                    \/ category \in DOMAIN RuleStore /\ RuleStore[category].granularity = g
         IN  (IF selected THEN <<category>> ELSE << >>) \o SelectedBlocks(R, g, k + 1)

\* Header row 0 of a grid made of these blocks: the rule name over the first
\* column of its block, "" over the others and over the identity block.
RECURSIVE HeaderOf(_, _)
HeaderOf(R, blocks) ==
    IF blocks = << >> THEN << >>
    ELSE LET category == Head(blocks)
             count == ColumnCount(R.rules[category])
         IN  (IF category = "none" THEN Fill(count, "")
              ELSE <<category>> \o Fill(count - 1, ""))
             \o HeaderOf(R, Tail(blocks))

\* C28: for any state of the range and any granularity, getValues returns a
\* grid whose column blocks are the identity block followed by exactly the
\* rule blocks of at least one column whose rule is declared with that
\* granularity (every such block when no granularity is given), in block
\* order.
C28_BlockSelection ==
    last.op \in {"getValues", "getValuesThrows"} =>
        /\ last.op = "getValues"
        /\ last.values[1] = HeaderOf(last.pre, SelectedBlocks(last.pre, last.args[1], 1))

\* The columns (0-based) at which header row 0 starts a block: column 0 and
\* every column with a non-empty cell.
BlockStarts(header) ==
    {0} \cup {c \in 0..(Len(header) - 1) : header[c + 1] # ""}

\* The start of the block a column belongs to: the last start at or before it.
StartOf(header, c) ==
    CHOOSE b \in BlockStarts(header) :
        b <= c /\ \A d \in BlockStarts(header) : d <= c => d <= b

\* The last column of the block that starts at b.
EndOf(header, b) ==
    CHOOSE e \in b..(Len(header) - 1) :
        /\ \A c \in b..e : StartOf(header, c) = b
        /\ (e + 1 < Len(header) => StartOf(header, e + 1) # b)

\* The name of the block that starts at b.
BlockName(header, b) == IF header[b + 1] = "" THEN "none" ELSE header[b + 1]

\* Every column lies in exactly one non-empty run of setRules, and the runs
\* are those that start at column 0 and at the non-empty header cells.
ColumnsPartitioned(range) ==
    LET header == range[1]
        thresholds == Thresholds(header, 0, 0, << >>)
        runs == {t \in 1..Len(thresholds) : thresholds[t][1] < thresholds[t][2]}
    IN  \A c \in 0..(Len(header) - 1) :
            \E t \in runs :
                /\ thresholds[t][1] <= c /\ c < thresholds[t][2]
                /\ thresholds[t][1] = StartOf(header, c)
                /\ \A u \in runs :
                       (thresholds[u][1] <= c /\ c < thresholds[u][2]) => u = t

\* The stored row of every row with a non-empty identity cell is, block by
\* block, the run of its cells.
CellsRetained(range) ==
    LET header == range[1]
    IN  \A r \in 1..Len(range) :
            At(range[r], 0) # "" =>
                \A b \in BlockStarts(header) :
                    LET stored == StoredRow(Self, BlockName(header, b), At(range[r], 0))
                    IN  /\ Len(stored) = EndOf(header, b) - b + 1
                        /\ \A c \in b..EndOf(header, b) :
                               stored[c - b + 1] = range[r][c + 1]

Partitioned(range) == ColumnsPartitioned(range) /\ CellsRetained(range)

\* C29: for any raw grid, setRules assigns every column to exactly one
\* block, the blocks being the contiguous runs that start at the non-empty
\* cells of header row 0 after the leading identity run, and every cell of a
\* row with a non-empty identity cell is retained in the stored row of its
\* block.
C29_BlockPartition ==
    last.op = "new" => Partitioned(last.args[1])

\* The rows of a grid carry distinct non-empty ids and its blocks distinct
\* names.
DistinctKeys(range) ==
    /\ \A r, q \in 1..Len(range) :
           (At(range[r], 0) # "" /\ At(range[r], 0) = At(range[q], 0)) => r = q
    /\ \A b, d \in BlockStarts(range[1]) :
           BlockName(range[1], b) = BlockName(range[1], d) => b = d

\* C29 for the grids whose rows carry distinct ids and whose blocks carry
\* distinct names.
C29_BlockPartitionAmended ==
    last.op = "new" =>
        /\ ColumnsPartitioned(last.args[1])
        /\ DistinctKeys(last.args[1]) => CellsRetained(last.args[1])

\* A range built from a grid of three blocks with an entity row.
C29_Witness ==
    /\ last.op = "new"
    /\ DistinctKeys(last.args[1])
    /\ Cardinality(BlockStarts(last.args[1][1])) = 3
    /\ \E r \in 1..Len(last.args[1]) : At(last.args[1][r], 0) \notin {"", "ID", "default"}
    /\ Partitioned(last.args[1])

\* C30: 'ID' and 'default' are tracked in every reachable state; after
\* fillRuleValues(R) both have a row in the identity block and in R's block,
\* and the first two data rows of a getValues() call made next are the 'ID'
\* row and the 'default' row.
C30_SentinelRows ==
    /\ Sentinels \subseteq Tracked
    /\ last.op = "fillRuleValues" =>
           LET rows == DataRows(getValues(Self, "").values)
           IN  /\ \A id \in Sentinels :
                      /\ rowIndex[id] \in DOMAIN rules["none"]
                      /\ rowIndex[id] \in DOMAIN rules[last.args[1].name]
                      /\ Len(rules["none"][rowIndex[id]]) > 0
               /\ Len(rows) >= 2
               /\ At(rows[1], 0) = "ID"
               /\ At(rows[2], 0) = "default"

\* The names of a list, each once, in the order of its first occurrence.
RECURSIVE FirstOccurrences(_)
FirstOccurrences(names) ==
    IF names = << >> THEN << >>
    ELSE LET front == FirstOccurrences(SubSeq(names, 1, Len(names) - 1))
             name == names[Len(names)]
         IN  IF \E k \in 1..Len(front) : front[k] = name THEN front ELSE Append(front, name)

\* The number of the last addRule call made for a name in a list of calls.
LastAdded(names, name) ==
    CHOOSE i \in 1..Len(names) : names[i] = name /\ \A j \in 1..Len(names) : names[j] = name => j <= i

\* The rules run by the validate() call, in the order of their runs.
RunsOf(events) == SelectSeq(events, LAMBDA e : e[1] = "run")

\* C31: in a validate() call the runs are those of the rules added before the
\* call, each at most once and in the order they were added; every run but a
\* rejected one is followed by the rule's saveValues before the next run; a
\* rejected run is the last event of the call; a call that returns has run
\* every rule once.
C31_ValidateSequential ==
    client.calls > 0 =>
        LET expected == FirstOccurrences(client.atCall)
            events == client.events
            runs == RunsOf(events)
        IN  /\ Len(runs) <= Len(expected)
            /\ \A k \in 1..Len(runs) :
                   /\ runs[k][2] = expected[k]
                   /\ runs[k][3] = LastAdded(client.atCall, expected[k])
                   /\ events[2 * k - 1] = runs[k]
                   /\ k < Len(runs) \/ ~ client.thrown =>
                          /\ client.outcomes[runs[k][2]] = "resolves"
                          /\ Len(events) >= 2 * k
                          /\ events[2 * k] = <<"saveValues", runs[k][2], runs[k][3]>>
            /\ client.thrown =>
                   /\ client.pc = "idle"
                   /\ runs # << >>
                   /\ client.outcomes[runs[Len(runs)][2]] = "rejects"
                   /\ events[Len(events)] = runs[Len(runs)]
            /\ (client.pc = "idle" /\ ~ client.thrown) => Len(runs) = Len(expected)

\* A validate() call on three rules ended by the rejection of the second
\* rule's run, the first rule's values saved, a rule added during the call.
C31_Witness ==
    /\ client.calls > 0
    /\ client.thrown
    /\ Len(FirstOccurrences(client.atCall)) = 3
    /\ Len(client.events) = 3
    /\ client.events[2][1] = "saveValues"
    /\ Len(client.added) > Len(client.atCall)

\* C32: over any sequence of invocations of the entry points the front-end
\* factory is called at most once, and every invocation has called the
\* matching front-end method once.
C32_LazyBinding ==
    /\ binding.factoryCalls <= 1
    /\ Len(binding.calls) = Len(binding.invoked)
    /\ \A k \in 1..Len(binding.invoked) : binding.calls[k][2] = binding.invoked[k][1]

\* getValues left the tracked ids as they were.
SameTracked == DOMAIN rowIndex = DOMAIN last.pre.rowIndex

\* getRule returns for every block what it returned before the call.
SameRules ==
    \A k \in 1..Len(ruleKeys) : getRule(Self, ruleKeys[k]) = getRule(last.pre, ruleKeys[k])

\* A second getValues with the same argument returns the grid of the first.
SameGrid == getValues(Self, last.args[1]).values = last.values

\* C33: a getValues call neither adds nor removes a tracked id; after it
\* getRule returns for every rule the rows it returned before, and a second
\* getValues with the same argument returns the same grid.
C33_GetValuesReadOnly ==
    last.op = "getValues" => SameTracked /\ SameRules /\ SameGrid

\* Every row of a grid has the number of cells of its first row.
Rectangular(values) == \A r \in 1..Len(values) : Len(values[r]) = Len(values[1])

\* C34: on a range changed only by fillRuleValues calls and by setRow calls
\* whose cell count is the column count of the block, every row of the grid
\* getValues returns, header rows included, has the same number of cells.
C34_RectangularOutput ==
    (last.op = "getValues" /\ ~ history.unfit) => Rectangular(last.values)

\* C35: a second fillRuleValues call with the rule definition and the getRows
\* result of the call just made leaves rowIndex and every stored row as they
\* are.
C35_FillIdempotent ==
    last.op = "fillRuleValues" =>
        LET again == fillRuleValues(Self, last.args[1], last.args[2])
        IN  /\ again.rowIndex = rowIndex
            /\ again.rules = rules

\* A fillRuleValues call that added an id, pruned another and kept a stored
\* value.
C35_Witness ==
    /\ last.op = "fillRuleValues"
    /\ Tracked \ DOMAIN last.pre.rowIndex # {}
    /\ DOMAIN last.pre.rowIndex \ Tracked # {}
    /\ \E id \in Tracked \ Sentinels :
           /\ StoredRow(Self, last.args[1].name, id) # << >>
           /\ \E c \in 1..Len(StoredRow(Self, last.args[1].name, id)) :
                  StoredRow(Self, last.args[1].name, id)[c] \notin {"", Undefined}

\* The rule blocks of the range before the call other than the block of the
\* rule of the call and the identity block.
OtherBlocks == DOMAIN last.pre.rules \ {last.args[1].name, "none"}

\* The ids tracked before the call and still tracked after it.
StillTracked == Tracked \cap DOMAIN last.pre.rowIndex

\* C36: fillRuleValues(R) leaves, in every rule block other than R's, the
\* stored row of every id still tracked after the call as it was, and no
\* row of such a block is written or removed.
C36_OtherBlocksUnchanged ==
    last.op = "fillRuleValues" =>
        \A B \in OtherBlocks :
            /\ B \in DOMAIN rules
            /\ rules[B] = last.pre.rules[B]
            /\ \A id \in StillTracked : StoredRow(Self, B, id) = StoredRow(last.pre, B, id)

\* A fillRuleValues call on a range with another rule's block that holds a
\* value for an entity still tracked, while another id was pruned or added.
C36_Witness ==
    /\ last.op = "fillRuleValues"
    /\ Tracked # DOMAIN last.pre.rowIndex
    /\ \E B \in OtherBlocks, id \in StillTracked \ Sentinels :
           \E c \in 1..Len(StoredRow(Self, B, id)) : StoredRow(Self, B, id)[c] # ""

\* C37: after the write-back of a pass, a parameter cell the user edited
\* while the rules ran holds the user's value (no rule changes its settings
\* in a run), in the row of the same id.
C37_NoLostUpdate ==
    (session.pc = "idle" /\ session.passes > 0 /\ session.edit # << >>) =>
        LET r == session.edit[1]
            c == session.edit[2]
        IN  /\ r <= Len(session.sheet)
            /\ c <= Len(session.sheet[r])
            /\ session.sheet[r][1] = session.edit[3]
            /\ session.sheet[r][c] = UserValue

\* C38: for one Client buildReport is invoked at most once, whatever calls
\* are made and however they overlap, and every call that returns a report
\* returns the same one.
C38_ReportBuiltOnce ==
    /\ report.builds <= 1
    /\ \A i, j \in 1..Len(report.calls) :
           (report.calls[i].pc = "returned" /\ report.calls[j].pc = "returned") =>
               report.calls[i].result = report.calls[j].result

\* initializeSheets has been called and has neither returned nor thrown.
Running == startup.pc # "idle"

\* initializeSheets has returned or has thrown.
Ended == startup.pc = "idle" /\ startup.outcome \in {"completed", "thrown"}

\* The grid is read for reconciliation only after migrate() has run.
MigrateFirst ==
    \A k \in 1..Len(startup.calls) :
        startup.calls[k] = "initializeRules" =>
            \E j \in 1..(k - 1) : startup.calls[j] = "migrate"

\* C39: every initializeSheets call ends, by completing the migrations and
\* the rule initialization or by an error, also when getIdentity() returns
\* no identity; migrate() runs before the grid is read.
C39_InitializeSheetsTerminates ==
    /\ []MigrateFirst
    /\ Running ~> Ended

\* The 1-based column at which the parameter at position idx of a rule
\* appears in a written grid: the column of the rule's name in the first
\* row, plus the position; 0 when the grid has no block of that rule.
ParameterColumn(grid, ruleName, idx) ==
    LET starts == {c \in 1..Len(grid[1]) : grid[1][c] = ruleName}
    IN  IF starts = {} THEN 0
        ELSE (CHOOSE c \in starts : \A d \in starts : c <= d) + idx

\* C40: after a pass of initializeRules that completed, every validation was
\* applied at the column at which its parameter appears in the grid the pass
\* wrote to that sheet, whatever blocks the sheet held before the pass and in
\* whatever order.
C40_ValidationColumns ==
    pass.op = "initializeRules" =>
        \A v \in pass.validations :
            v[4] = ParameterColumn(ruleSheets[v[1]], v[2], v[3])

====
